---- MODULE Spec2Model ----
(***************************************************************************)
(* Transformation configuration builder of greenmask                       *)
(* (internal/db/postgres/context/config_builder.go): binding of the user   *)
(* config to the introspected tables, partition expansion, propagation of  *)
(* apply_for_references transformers along the reversed FK graph, and the  *)
(* per-binding set-up loop of validateAndBuildEntriesConfig.               *)
(***************************************************************************)
EXTENDS Integers, Sequences, FiniteSets, TLC

VARIABLES
    pc,          \* position inside validateAndBuildEntriesConfig: "start", "setConfig",
                 \* "loop"; "done", "fatal" and "error" after a return; "panic" and
                 \* "overflow" when the process died; "idle" when it is not called
    tables,      \* the in-scope table list (sequence of oids), in introspection order
    entry,       \* oid -> *entries.Table (the objects the list, the graph and the bindings share)
    columns,     \* oid -> the []*toolkit.Column objects first owned by that table
    edges,       \* the reversed FK graph, as a sequence of edges in edge-id order
    parts,       \* oid -> leaf partition oids the catalog returns for that table
    cfg,         \* cfg.Transformation: sequence of ids of the user's *domains.Table objects
    heap,        \* id -> *domains.Table object (user configs and generated ones)
    autoAnonymize, \* cfg.AutoAnonymize
    work,        \* the result of findTablesWithTransformers: [entry |-> oid, config |-> id]
    res,         \* setConfigToEntries' res: sequence of [entry |-> oid, config |-> id]
    setConfigWarns, \* setConfigToEntries' local warnings
    pos,         \* number of elements the current loop has completed
    warnings,    \* validateAndBuildEntriesConfig's accumulated warnings
    ret,         \* what the builder returned: [warnings, err]
    call,        \* the call of a function of the SQL builder or of the default
                 \* anonymizers under study: its arguments, locals and result
    first        \* what the first of two runs on the same inputs produced

vars == <<pc, tables, entry, columns, edges, parts, cfg, heap, autoAnonymize,
          work, res, setConfigWarns, pos, warnings, ret, call, first>>

----------------------------------------------------------------------------
(* Generic helpers on sequences *)

Range(s) == {s[i] : i \in DOMAIN s}

RECURSIVE SeqFlatten(_)
SeqFlatten(ss) == IF ss = <<>> THEN <<>> ELSE Head(ss) \o SeqFlatten(Tail(ss))

\* slices.Index / slices.IndexFunc: the first position that satisfies P, 0 when none
IndexFunc(s, P(_)) ==
    IF \E i \in DOMAIN s : P(s[i])
    THEN CHOOSE i \in DOMAIN s : P(s[i]) /\ \A j \in 1..(i - 1) : ~P(s[j])
    ELSE 0

IsPrefixAt(s, old, i) ==
    /\ i + Len(old) - 1 <= Len(s)
    /\ \A k \in 1..Len(old) : s[i + k - 1] = old[k]

\* strings.ReplaceAll on a text held as a sequence of atoms: leftmost,
\* non-overlapping occurrences of old are replaced by new
RECURSIVE ReplaceFrom(_, _, _, _)
ReplaceFrom(s, old, new, i) ==
    IF i > Len(s) THEN <<>>
    ELSE IF IsPrefixAt(s, old, i)
         THEN new \o ReplaceFrom(s, old, new, i + Len(old))
         ELSE <<s[i]>> \o ReplaceFrom(s, old, new, i + 1)

ReplaceAll(s, old, new) == IF old = <<>> THEN s ELSE ReplaceFrom(s, old, new, 1)

----------------------------------------------------------------------------
(* Constants of the program *)

columnParameterName == "column"
engineParameterName == "engine"
HashEngineParameterName == "hash"
AllowApplyForReferenced == "AllowApplyForReferenced"
RequireHashEngineParameter == "RequireHashEngineParameter"

ErrorValidationSeverity == "error"
WarningValidationSeverity == "warning"

\* toolkit.TransformationConditionNamespaceRecord / ...RawRecord, as atoms
NamespaceRecord == <<"record">>
NamespaceRawRecord == <<"raw_", "record">>

\* fmt.Sprintf(`"%s"`, name)
Quote(name) == "\"" \o name \o "\""

\* the tolerance used at lines 188-189, 318-319 and 830-831
NameMatches(cfgName, entryName) == cfgName = entryName \/ Quote(cfgName) = entryName

\* toolkit.ValidationWarnings.IsFatal
IsFatal(ws) == \E i \in DOMAIN ws : ws[i].severity = ErrorValidationSeverity

\* a map[string]string without entries
EmptyMap == [k \in {} |-> ""]

NewWarning(sev, msg, meta) == [severity |-> sev, msg |-> msg, meta |-> meta]

\* string(tr.Params[name]): the empty string when the parameter is absent
Param(tr, name) == IF name \in DOMAIN tr.Params THEN tr.Params[name] ELSE ""

----------------------------------------------------------------------------
(* The transformer registry: capability metadata by transformer name.      *)
(* "absent" is a property the definition does not declare.                 *)

Registry ==
    LET column == [Name |-> "column", IsColumn |-> TRUE, IsColumnContainer |-> FALSE]
        engine == [Name |-> "engine", IsColumn |-> FALSE, IsColumnContainer |-> FALSE]
        cols   == [Name |-> "columns", IsColumn |-> FALSE, IsColumnContainer |-> TRUE]
        def(allow, requireHash, ps) ==
            [allow |-> allow, requireHash |-> requireHash, Parameters |-> ps]
    IN  [Hash          |-> def("true",   "false",  <<column, engine>>),
         RandomInt     |-> def("true",   "true",   <<column, engine>>),
         RandomString  |-> def("false",  "absent", <<column, engine>>),
         RandomUuid    |-> def("true",   "absent", <<column, engine>>),
         RandomNumeric |-> def("true",   "true",   <<column, engine>>),
         RandomFloat   |-> def("true",   "true",   <<column, engine>>),
         RandomDate    |-> def("true",   "true",   <<column, engine>>),
         RandomBool    |-> def("true",   "true",   <<column, engine>>),
         Replace       |-> def("absent", "absent", <<column>>),
         RandomPerson  |-> def("absent", "absent", <<cols, engine>>)]

RegistryHas(name) == name \in DOMAIN Registry

----------------------------------------------------------------------------
(* Default anonymizers (internal/db/postgres/transformers/default_anonymizers.go) *)

\* the type names the model knows, as the sequence of their characters
Chars(s) ==
    CASE s = "text" -> <<"t", "e", "x", "t">>
      [] s = "varchar" -> <<"v", "a", "r", "c", "h", "a", "r">>
      [] s = "character varying" -> <<"c", "h", "a", "r", "a", "c", "t", "e", "r", " ", "v", "a", "r", "y", "i", "n", "g">>
      [] s = "char" -> <<"c", "h", "a", "r">>
      [] s = "character" -> <<"c", "h", "a", "r", "a", "c", "t", "e", "r">>
      [] s = "bpchar" -> <<"b", "p", "c", "h", "a", "r">>
      [] s = "integer" -> <<"i", "n", "t", "e", "g", "e", "r">>
      [] s = "int" -> <<"i", "n", "t">>
      [] s = "int4" -> <<"i", "n", "t", "4">>
      [] s = "bigint" -> <<"b", "i", "g", "i", "n", "t">>
      [] s = "int8" -> <<"i", "n", "t", "8">>
      [] s = "smallint" -> <<"s", "m", "a", "l", "l", "i", "n", "t">>
      [] s = "int2" -> <<"i", "n", "t", "2">>
      [] s = "numeric" -> <<"n", "u", "m", "e", "r", "i", "c">>
      [] s = "decimal" -> <<"d", "e", "c", "i", "m", "a", "l">>
      [] s = "real" -> <<"r", "e", "a", "l">>
      [] s = "float4" -> <<"f", "l", "o", "a", "t", "4">>
      [] s = "double precision" -> <<"d", "o", "u", "b", "l", "e", " ", "p", "r", "e", "c", "i", "s", "i", "o", "n">>
      [] s = "float8" -> <<"f", "l", "o", "a", "t", "8">>
      [] s = "date" -> <<"d", "a", "t", "e">>
      [] s = "timestamp" -> <<"t", "i", "m", "e", "s", "t", "a", "m", "p">>
      [] s = "timestamp without time zone" -> <<"t", "i", "m", "e", "s", "t", "a", "m", "p", " ", "w", "i", "t", "h", "o", "u", "t", " ", "t", "i", "m", "e", " ", "z", "o", "n", "e">>
      [] s = "timestamptz" -> <<"t", "i", "m", "e", "s", "t", "a", "m", "p", "t", "z">>
      [] s = "timestamp with time zone" -> <<"t", "i", "m", "e", "s", "t", "a", "m", "p", " ", "w", "i", "t", "h", " ", "t", "i", "m", "e", " ", "z", "o", "n", "e">>
      [] s = "boolean" -> <<"b", "o", "o", "l", "e", "a", "n">>
      [] s = "bool" -> <<"b", "o", "o", "l">>
      [] s = "uuid" -> <<"u", "u", "i", "d">>
      [] s = "json" -> <<"j", "s", "o", "n">>
      [] s = "jsonb" -> <<"j", "s", "o", "n", "b">>
      [] s = "TEXT" -> <<"T", "E", "X", "T">>
      [] s = "Int4" -> <<"I", "n", "t", "4">>
      [] s = "VARCHAR" -> <<"V", "A", "R", "C", "H", "A", "R">>
      [] s = "Timestamp With Time Zone" -> <<"T", "i", "m", "e", "s", "t", "a", "m", "p", " ", "W", "i", "t", "h", " ", "T", "i", "m", "e", " ", "Z", "o", "n", "e">>
      [] s = "UUID" -> <<"U", "U", "I", "D">>
      [] s = "JsonB" -> <<"J", "s", "o", "n", "B">>
      [] s = "Boolean" -> <<"B", "o", "o", "l", "e", "a", "n">>
      [] s = "text[]" -> <<"t", "e", "x", "t", "[", "]">>
      [] s = "_text" -> <<"_", "t", "e", "x", "t">>
      [] s = "integer[]" -> <<"i", "n", "t", "e", "g", "e", "r", "[", "]">>
      [] s = "_int4" -> <<"_", "i", "n", "t", "4">>
      [] s = "boolean[]" -> <<"b", "o", "o", "l", "e", "a", "n", "[", "]">>
      [] s = "uuid[]" -> <<"u", "u", "i", "d", "[", "]">>
      [] s = "hstore[]" -> <<"h", "s", "t", "o", "r", "e", "[", "]">>
      [] s = "_geometry" -> <<"_", "g", "e", "o", "m", "e", "t", "r", "y">>
      [] s = "INTEGER[]" -> <<"I", "N", "T", "E", "G", "E", "R", "[", "]">>
      [] s = "_" -> <<"_">>
      [] s = "custom_type" -> <<"c", "u", "s", "t", "o", "m", "_", "t", "y", "p", "e">>
      [] s = "geography" -> <<"g", "e", "o", "g", "r", "a", "p", "h", "y">>
      [] s = "hstore" -> <<"h", "s", "t", "o", "r", "e">>
      [] s = "interval" -> <<"i", "n", "t", "e", "r", "v", "a", "l">>
      [] s = "xml" -> <<"x", "m", "l">>
      [] s = "varchar(255)" -> <<"v", "a", "r", "c", "h", "a", "r", "(", "2", "5", "5", ")">>
      [] s = "some_alias" -> <<"s", "o", "m", "e", "_", "a", "l", "i", "a", "s">>
      [] s = "unknown_type" -> <<"u", "n", "k", "n", "o", "w", "n", "_", "t", "y", "p", "e">>
      [] s = "" -> <<>>

\* strings.ToLower on one character and on a string
ToLowerChar(c) ==
    CASE c = "A" -> "a"
      [] c = "B" -> "b"
      [] c = "C" -> "c"
      [] c = "D" -> "d"
      [] c = "E" -> "e"
      [] c = "F" -> "f"
      [] c = "G" -> "g"
      [] c = "H" -> "h"
      [] c = "I" -> "i"
      [] c = "J" -> "j"
      [] c = "K" -> "k"
      [] c = "L" -> "l"
      [] c = "M" -> "m"
      [] c = "N" -> "n"
      [] c = "O" -> "o"
      [] c = "P" -> "p"
      [] c = "Q" -> "q"
      [] c = "R" -> "r"
      [] c = "S" -> "s"
      [] c = "T" -> "t"
      [] c = "U" -> "u"
      [] c = "V" -> "v"
      [] c = "W" -> "w"
      [] c = "X" -> "x"
      [] c = "Y" -> "y"
      [] c = "Z" -> "z"
      [] OTHER -> c

ToLower(cs) == [i \in DOMAIN cs |-> ToLowerChar(cs[i])]

\* strings.HasSuffix, strings.HasPrefix
HasSuffix(cs, suffix) ==
    Len(cs) >= Len(suffix) /\ SubSeq(cs, Len(cs) - Len(suffix) + 1, Len(cs)) = suffix
HasPrefix(cs, prefix) ==
    Len(cs) >= Len(prefix) /\ SubSeq(cs, 1, Len(prefix)) = prefix

\* column.GetType: the override when there is one
GetType(col) == IF col.OverriddenType # "" THEN col.OverriddenType ELSE col.TypeName

\* &domains.TransformerConfig{Name: name, Params: params}
DefaultTransformer(name, params) ==
    [cfg |-> <<[Name |-> name, Params |-> params, ApplyForReferences |-> FALSE, When |-> <<>>]>>,
     err |-> "nil"]

\* the result (cfg is empty when the transformer is nil) of the switch on
\* strings.ToLower(typeName)
getDefaultTransformerForScalarType(column, typeName) ==
    LET t == ToLower(Chars(typeName))
        is(S) == \E x \in S : t = Chars(x)
    IN  IF is({"text", "varchar", "character varying", "char", "character", "bpchar"})
        THEN DefaultTransformer("RandomString",
                 [column |-> column.Name, min_length |-> "5", max_length |-> "20"])
        ELSE IF is({"integer", "int", "int4", "bigint", "int8", "smallint", "int2"})
        THEN DefaultTransformer("RandomInt",
                 [column |-> column.Name, min |-> "1", max |-> "2147483647"])
        ELSE IF is({"numeric", "decimal"})
        THEN DefaultTransformer("RandomNumeric",
                 [column |-> column.Name, min |-> "1", max |-> "999999",
                  precision |-> "10", scale |-> "2"])
        ELSE IF is({"real", "float4", "double precision", "float8"})
        THEN DefaultTransformer("RandomFloat",
                 [column |-> column.Name, min |-> "1.0", max |-> "1000000.0"])
        ELSE IF is({"date"})
        THEN DefaultTransformer("RandomDate",
                 [column |-> column.Name, min |-> "1970-01-01", max |-> "2024-12-31"])
        ELSE IF is({"timestamp", "timestamp without time zone"})
        THEN DefaultTransformer("RandomDate",
                 [column |-> column.Name, min |-> "1970-01-01 00:00:00",
                  max |-> "2024-12-31 23:59:59"])
        ELSE IF is({"timestamptz", "timestamp with time zone"})
        THEN DefaultTransformer("RandomDate",
                 [column |-> column.Name, min |-> "1970-01-01 00:00:00+00",
                  max |-> "2024-12-31 23:59:59+00"])
        ELSE IF is({"boolean", "bool"})
        THEN DefaultTransformer("RandomBool", [column |-> column.Name])
        ELSE IF is({"uuid"})
        THEN DefaultTransformer("RandomUuid", [column |-> column.Name])
        ELSE IF is({"json", "jsonb"})
        THEN DefaultTransformer("Replace", [column |-> column.Name, value |-> "{}"])
        ELSE [cfg |-> <<>>, err |-> "unable to get default transformer for column"]

getDefaultTransformerForArrayType(column, typeName) ==
    DefaultTransformer("Replace", [column |-> column.Name, value |-> "{}", keep_null |-> "true"])

\* the canonical type name is not consulted
GetDefaultTransformerForColumn_TypeNameOnly(column) ==
    getDefaultTransformerForScalarType(column, GetType(column))

\* arrays are handed to the switch on scalar types
GetDefaultTransformerForColumn_NoArrays(column) ==
    getDefaultTransformerForScalarType(column,
        IF column.CanonicalTypeName # "" THEN column.CanonicalTypeName ELSE GetType(column))

GetDefaultTransformerForColumn(column) ==
    LET typeName == IF column.CanonicalTypeName # "" THEN column.CanonicalTypeName
                    ELSE GetType(column)
    IN  IF HasSuffix(Chars(typeName), <<"[", "]">>) \/ HasPrefix(Chars(typeName), <<"_">>)
        THEN getDefaultTransformerForArrayType(column, typeName)
        ELSE getDefaultTransformerForScalarType(column, typeName)

----------------------------------------------------------------------------
(* Views on the shared objects *)

\* t.Columns: the column objects the entry currently points at
Columns(t) == columns[entry[t].ColumnsRef]

\* graph.ReversedGraph()[idx]: the edges whose referenced side (From) is the
\* table at position idx of the graph's table list, in edge order
ReversedGraph(idx) == SelectSeq(edges, LAMBDA e : e.from.table = tables[idx])

\* domains.TransformerConfig.Clone: a copy that shares nothing with the original
Clone(tr) == tr

----------------------------------------------------------------------------
(* Reference propagation *)

hasTransformerWithApplyForReferences(c) ==
    \E i \in DOMAIN c.Transformers : c.Transformers[i].ApplyForReferences

isTransformerAllowedToApplyForReferences(tr) ==
    IF ~RegistryHas(tr.Name)
    THEN [allowed |-> FALSE,
          warnings |-> <<NewWarning(ErrorValidationSeverity, "transformer not found",
                                    [TransformerName |-> tr.Name])>>]
    ELSE IF Registry[tr.Name].allow # "true"
    THEN [allowed |-> FALSE,
          warnings |-> <<NewWarning(ErrorValidationSeverity,
              "cannot apply transformer for references: transformer does not support apply for references",
              [TransformerName |-> tr.Name])>>]
    ELSE IF Registry[tr.Name].requireHash = "absent"
    THEN [allowed |-> FALSE, warnings |-> <<>>]
    ELSE IF Registry[tr.Name].requireHash # "true"
    THEN [allowed |-> TRUE, warnings |-> <<>>]
    ELSE IF Param(tr, engineParameterName) # HashEngineParameterName
    THEN [allowed |-> FALSE,
          warnings |-> <<NewWarning(ErrorValidationSeverity,
              "cannot apply transformer for references: engine parameter is not hash",
              [TransformerName |-> tr.Name])>>]
    ELSE [allowed |-> TRUE, warnings |-> <<>>]

checkApplyForReferenceMetRequirements(c) ==
    LET one(tr) == IF ~tr.ApplyForReferences THEN <<>>
                   ELSE LET a == isTransformerAllowedToApplyForReferences(tr)
                        IN  IF ~a.allowed THEN a.warnings ELSE <<>>
        ws == SeqFlatten([i \in DOMAIN c.Transformers |-> one(c.Transformers[i])])
    IN  [ok |-> ~IsFatal(ws), warnings |-> ws]

\* the ordinal position lost: every root transformer maps to the first FK column
collectRootTransformers_FirstKey(rootTable, rootTableCfg) ==
    LET one(tr) ==
            IF ~tr.ApplyForReferences \/ Param(tr, engineParameterName) # "hash"
               \/ \A n \in DOMAIN entry[rootTable].PrimaryKey :
                      entry[rootTable].PrimaryKey[n] # Param(tr, columnParameterName)
            THEN <<>>
            ELSE <<[entry |-> rootTable, columnName |-> Param(tr, columnParameterName),
                    attNum |-> 0, cfg |-> tr]>>
    IN  SeqFlatten([i \in DOMAIN rootTableCfg.Transformers |-> one(rootTableCfg.Transformers[i])])

\* the root transformers that take part in the walk; attNum is the 0-based
\* position of the transformed column in the root's primary key
collectRootTransformers(rootTable, rootTableCfg) ==
    LET pk == entry[rootTable].PrimaryKey
        one(tr) ==
            IF ~tr.ApplyForReferences \/ Param(tr, engineParameterName) # "hash"
            THEN <<>>
            ELSE LET idx == IndexFunc(pk, LAMBDA c : c = Param(tr, columnParameterName))
                 IN  IF idx = 0 THEN <<>>
                     ELSE <<[entry |-> rootTable,
                             columnName |-> Param(tr, columnParameterName),
                             attNum |-> idx - 1,
                             cfg |-> tr]>>
    IN  SeqFlatten([i \in DOMAIN rootTableCfg.Transformers |-> one(rootTableCfg.Transformers[i])])

\* position of the table in the graph's table list, 0 when absent
findTableIndex(table) ==
    IndexFunc(tables, LAMBDA t : /\ NameMatches(entry[table].Name, entry[t].Name)
                                 /\ NameMatches(entry[table].Schema, entry[t].Schema))

\* A condition is held as a sequence of atoms; an identifier is a run of
\* identifier atoms, so that one column name can be a prefix of another
IsIdentAtom(a) == a \in {"id", "user", "order", "tenant", "name", "note", "_", "x",
                         "record", "raw_"}

\* the atoms of a column name, as fmt.Sprintf("%s.%s", namespace, column) writes it
ColAtoms(name) ==
    CASE name = "user_id"   -> <<"user", "_", "id">>
      [] name = "order_id"  -> <<"order", "_", "id">>
      [] name = "tenant_id" -> <<"tenant", "_", "id">>
      [] name = "id_x"      -> <<"id", "_", "x">>
      [] OTHER              -> <<name>>

\* the column names the regexp (?:record|raw_record)\.([a-zA-Z_][a-zA-Z0-9_]*)
\* captures in a condition held as atoms: after "record" ".", the longest run
\* of identifier atoms
RECURSIVE IdentRun(_, _)
IdentRun(s, i) ==
    IF i <= Len(s) /\ IsIdentAtom(s[i]) THEN <<s[i]>> \o IdentRun(s, i + 1) ELSE <<>>

RECURSIVE JoinAtoms(_)
JoinAtoms(s) == IF s = <<>> THEN "" ELSE Head(s) \o JoinAtoms(Tail(s))

RECURSIVE WhenColumnsFrom(_, _)
WhenColumnsFrom(s, i) ==
    IF i + 2 > Len(s) THEN <<>>
    ELSE IF s[i] = "record" /\ s[i + 1] = "." /\ IdentRun(s, i + 2) # <<>>
         THEN <<JoinAtoms(IdentRun(s, i + 2))>>
              \o WhenColumnsFrom(s, i + 2 + Len(IdentRun(s, i + 2)))
         ELSE WhenColumnsFrom(s, i + 1)

validateDoesInheritedConditionHaveAllColumns(t, trCfg) ==
    IF trCfg.When = <<>> THEN <<>>
    ELSE LET names == WhenColumnsFrom(trCfg.When, 1)
             one(colName) ==
                 IF \E i \in DOMAIN Columns(t) : Columns(t)[i].Name = colName
                 THEN <<>>
                 ELSE <<NewWarning(ErrorValidationSeverity, "cannot inherit condition: column not found",
                                   [SchemaName |-> entry[t].Schema, TableName |-> entry[t].Name,
                                    ColumnName |-> colName])>>
         IN  SeqFlatten([i \in DOMAIN names |-> one(names[i])])

\* the manual transformer of that name on that column of that table, if the
\* user config holds one
checkTransformerAlreadyExists(conf, schemaName, tableName, tranName, tColumn) ==
    \E i \in DOMAIN conf :
        /\ heap[conf[i]].Name = tableName
        /\ heap[conf[i]].Schema = schemaName
        /\ \E j \in DOMAIN heap[conf[i]].Transformers :
               /\ heap[conf[i]].Transformers[j].Name = tranName
               /\ Param(heap[conf[i]].Transformers[j], columnParameterName) = tColumn

\* a map column -> type with at most the one entry of columnName
getColumnTypeOverride(rootTableCfg, columnName) ==
    IF columnName \in DOMAIN rootTableCfg.ColumnsTypeOverride
       /\ rootTableCfg.ColumnsTypeOverride[columnName] # ""
    THEN [c \in {columnName} |-> rootTableCfg.ColumnsTypeOverride[columnName]]
    ELSE EmptyMap

\* a freshly allocated domains.Table holds only these four fields
NewRefTableConfig(t, trConf, colTypeOverride) ==
    [Schema |-> entry[t].Schema, Name |-> entry[t].Name,
     Transformers |-> <<trConf>>, ColumnsTypeOverride |-> colTypeOverride,
     ApplyForInherited |-> FALSE, SubsetConds |-> <<>>, Query |-> "", When |-> <<>>,
     SkipAutoAnonymize |-> {}]

\* out is the walk's local result list: [entry |-> oid, config |-> domains.Table value]
addTransformerToReferenceTable(r, trConf, colTypeOverride, out) ==
    LET t == r.to.table
        refTableIdx == IndexFunc(out, LAMBDA m : /\ entry[m.entry].Name = entry[t].Name
                                                 /\ entry[m.entry].Schema = entry[t].Schema)
    IN  IF refTableIdx # 0
        THEN [out EXCEPT ![refTableIdx].config.Transformers = Append(@, trConf)]
        ELSE Append(out, [entry |-> t, config |-> NewRefTableConfig(t, trConf, colTypeOverride)])

\* acc = [res, warnings, status]; status "panic" is the index-out-of-range
\* of fkKeys[rootTr.attNum]
RECURSIVE processReference(_, _, _, _, _)
processReference(r, rootTableCfg, rootTrans, allTrans, acc) ==
    IF rootTrans = <<>> \/ acc.status # "ok" THEN acc
    ELSE LET rootTr == Head(rootTrans)
             fkKeys == r.to.keys
         IN  IF rootTr.attNum + 1 > Len(fkKeys)
             THEN [acc EXCEPT !.status = "panic"]
             ELSE
             LET refColName == fkKeys[rootTr.attNum + 1]
                 found == checkTransformerAlreadyExists(
                              allTrans, entry[r.to.table].Schema, entry[r.to.table].Name,
                              rootTr.cfg.Name, refColName)
                 cloned == [Clone(rootTr.cfg) EXCEPT
                               !.Params = [p \in DOMAIN @ \cup {columnParameterName} |->
                                             IF p = columnParameterName THEN refColName ELSE @[p]]]
                 whenCondition ==
                     ReplaceAll(
                         ReplaceAll(rootTr.cfg.When,
                                    NamespaceRecord \o <<".">> \o ColAtoms(rootTr.columnName),
                                    NamespaceRecord \o <<".">> \o ColAtoms(refColName)),
                         NamespaceRawRecord \o <<".">> \o ColAtoms(rootTr.columnName),
                         NamespaceRawRecord \o <<".">> \o ColAtoms(refColName))
                 trConf == IF rootTr.cfg.When # <<>>
                           THEN [cloned EXCEPT !.When = whenCondition]
                           ELSE cloned
                 ws == validateDoesInheritedConditionHaveAllColumns(r.to.table, trConf)
                 colTypeOverride == getColumnTypeOverride(rootTableCfg, rootTr.columnName)
                 next == IF found THEN acc
                         ELSE [acc EXCEPT
                                 !.warnings = @ \o ws,
                                 !.res = addTransformerToReferenceTable(r, trConf, colTypeOverride, @)]
             IN  processReference(r, rootTableCfg, Tail(rootTrans), allTrans, next)

\* whether some table that references `table` has one of its FK columns in
\* its own primary key
isEndToEndPKFK(table) ==
    LET idx == IndexFunc(tables, LAMBDA t : /\ entry[t].Name = entry[table].Name
                                            /\ entry[t].Schema = entry[table].Schema)
        rg == ReversedGraph(idx)
    IN  \E i \in DOMAIN rg :
            \E k \in DOMAIN rg[i].to.keys :
                \E p \in DOMAIN entry[rg[i].to.table].PrimaryKey :
                    entry[rg[i].to.table].PrimaryKey[p] = rg[i].to.keys[k]

\* the number of nested calls after which a walk can only be repeating a
\* (table, checkEndToEnd) pair it is already inside: the Go stack overflows
DfsDepthLimit == Len(tables) + 2

\* acc = [res, warnings, status]; status "overflow" is unbounded recursion
RECURSIVE buildRefsWithEndToEndDfs(_, _, _, _, _, _, _)
RECURSIVE DfsOverEdges(_, _, _, _, _, _, _)
buildRefsWithEndToEndDfs(table, rootTableCfg, rootTrans, allTrans, acc, checkEndToEnd, depth) ==
    IF acc.status # "ok" THEN acc
    ELSE IF depth > DfsDepthLimit THEN [acc EXCEPT !.status = "overflow"]
    ELSE LET tableIdx == findTableIndex(table)
         IN  IF tableIdx = 0
             THEN [acc EXCEPT !.warnings = Append(@, NewWarning(WarningValidationSeverity,
                      "transformer inheritance for ref: cannot find table in the graph: table will be ignored",
                      [SchemaName |-> entry[table].Schema, TableName |-> entry[table].Name]))]
             ELSE DfsOverEdges(ReversedGraph(tableIdx), rootTableCfg, rootTrans, allTrans,
                               acc, checkEndToEnd, depth)

DfsOverEdges(rs, rootTableCfg, rootTrans, allTrans, acc, checkEndToEnd, depth) ==
    IF rs = <<>> \/ acc.status # "ok" THEN acc
    ELSE LET r == Head(rs)
         IN  IF checkEndToEnd /\ ~isEndToEndPKFK(r.from.table)
             THEN DfsOverEdges(Tail(rs), rootTableCfg, rootTrans, allTrans, acc, checkEndToEnd, depth)
             ELSE LET a1 == processReference(r, rootTableCfg, rootTrans, allTrans, acc)
                      a2 == buildRefsWithEndToEndDfs(r.to.table, rootTableCfg, rootTrans, allTrans,
                                                     a1, TRUE, depth + 1)
                  IN  DfsOverEdges(Tail(rs), rootTableCfg, rootTrans, allTrans, a2, checkEndToEnd, depth)

getRefTables(rootTable, rootTableCfg, allTrans) ==
    buildRefsWithEndToEndDfs(rootTable, rootTableCfg,
                             collectRootTransformers(rootTable, rootTableCfg), allTrans,
                             [res |-> <<>>, warnings |-> <<>>, status |-> "ok"], FALSE, 1)

----------------------------------------------------------------------------
(* Binding of the config to the tables, and partition expansion *)

findTablesWithTransformers ==
    LET one(t) ==
            LET idx == IndexFunc(cfg, LAMBDA c : /\ NameMatches(heap[c].Name, entry[t].Name)
                                                 /\ NameMatches(heap[c].Schema, entry[t].Schema))
            IN  IF idx # 0 THEN <<[entry |-> t, config |-> cfg[idx]]>> ELSE <<>>
    IN  SeqFlatten([i \in DOMAIN tables |-> one(tables[i])])

\* findPartitionsOfPartitionedTable: the oids TableGetChildPatsQuery returns
findPartitionsOfPartitionedTable(t) == parts[t]

\* the in-scope leaves of the parent, in the order the catalog returns them
InScopeParts(parent) ==
    SelectSeq(findPartitionsOfPartitionedTable(parent),
              LAMBDA pt : \E i \in DOMAIN tables : entry[tables[i]].Oid = pt)

\* the entry object of the first in-scope table with that oid
EntryOfOid(pt) == tables[IndexFunc(tables, LAMBDA t : entry[t].Oid = pt)]

\* res of setupConfigForPartitionedTableChildren: every in-scope leaf bound
\* to the parent's own config object
setupConfigForPartitionedTableChildren(parentTcm) ==
    LET ps == InScopeParts(parentTcm.entry)
    IN  [i \in DOMAIN ps |-> [entry |-> EntryOfOid(ps[i]), config |-> parentTcm.config]]

\* the entries after setupConfigForPartitionedTableChildren: the leaves carry
\* the parent's identity and share the parent's column objects
EntriesAfterPartitionSetup(parentTcm) ==
    LET ps == InScopeParts(parentTcm.entry)
        leaves == {EntryOfOid(ps[i]) : i \in DOMAIN ps}
        p == entry[parentTcm.entry]
    IN  [t \in DOMAIN entry |->
            IF t \in leaves
            THEN [entry[t] EXCEPT !.RootPtName = p.Name, !.RootPtSchema = p.Schema,
                                  !.RootPtOid = p.Oid, !.ColumnsRef = p.ColumnsRef]
            ELSE entry[t]]

PartitionedWarning(t) ==
    NewWarning(ErrorValidationSeverity, "the table is partitioned use apply_for_inherited",
               [SchemaName |-> entry[t].Schema, TableName |-> entry[t].Name])

\* One iteration of the loop of setConfigToEntries, on work[pos + 1]
SetConfigStep ==
    /\ pc = "setConfig"
    /\ pos < Len(work)
    /\ LET tcm == work[pos + 1]
           c == heap[tcm.config]
           withRefs == hasTransformerWithApplyForReferences(c)
           chk == checkApplyForReferenceMetRequirements(c)
           refs == getRefTables(tcm.entry, c, cfg)
           \* the walk's tableConfigMappings point at domains.Table objects it allocated
           refBindings == [i \in DOMAIN refs.res |->
                              [entry |-> refs.res[i].entry, config |-> Len(heap) + i]]
           heap1 == IF withRefs /\ chk.ok
                    THEN heap \o [i \in DOMAIN refs.res |-> refs.res[i].config]
                    ELSE heap
           res1 == IF withRefs /\ chk.ok THEN res \o refBindings ELSE res
           warns1 == IF withRefs /\ chk.ok THEN setConfigWarns \o refs.warnings ELSE setConfigWarns
       IN  IF withRefs /\ ~chk.ok
           THEN /\ setConfigWarns' = setConfigWarns \o chk.warnings
                /\ pos' = pos + 1
                /\ UNCHANGED <<pc, res, heap, entry>>
           ELSE IF withRefs /\ refs.status # "ok"
           THEN \* the walk panicked or overflowed the stack: the process dies
                /\ pc' = refs.status
                /\ UNCHANGED <<pos, res, heap, entry, setConfigWarns>>
           ELSE IF entry[tcm.entry].RelKind # "p"
           THEN /\ res' = Append(res1, tcm)
                /\ heap' = heap1
                /\ setConfigWarns' = warns1
                /\ pos' = pos + 1
                /\ UNCHANGED <<pc, entry>>
           ELSE IF ~c.ApplyForInherited
           THEN /\ setConfigWarns' = Append(warns1, PartitionedWarning(tcm.entry))
                /\ res' = res1
                /\ heap' = heap1
                /\ pos' = pos + 1
                /\ UNCHANGED <<pc, entry>>
           ELSE /\ res' = res1 \o setupConfigForPartitionedTableChildren(tcm)
                /\ entry' = EntriesAfterPartitionSetup(tcm)
                /\ heap' = heap1
                /\ setConfigWarns' = warns1
                /\ pos' = pos + 1
                /\ UNCHANGED pc
    /\ UNCHANGED <<call, first, tables, columns, edges, parts, cfg, autoAnonymize, work, warnings, ret>>

\* setConfigToEntries returns; line 77 appends its warnings
SetConfigReturn ==
    /\ pc = "setConfig"
    /\ pos = Len(work)
    /\ warnings' = warnings \o setConfigWarns
    /\ pc' = "loop"
    /\ pos' = 0
    /\ UNCHANGED <<call, first, tables, entry, columns, edges, parts, cfg, heap, autoAnonymize,
                   work, res, setConfigWarns, ret>>

----------------------------------------------------------------------------
(* The per-binding loop of validateAndBuildEntriesConfig *)

\* AddMeta on every warning of the list
Enrich(ws, kv) ==
    [i \in DOMAIN ws |->
        [ws[i] EXCEPT !.meta = [k \in DOMAIN @ \cup DOMAIN kv |->
                                   IF k \in DOMAIN kv THEN kv[k] ELSE @[k]]]]

enrichWarningsWithTableName(ws, t) ==
    Enrich(ws, [SchemaName |-> entry[t].Schema, TableName |-> entry[t].Name])

enrichWarningsWithTransformerName(ws, n) == Enrich(ws, [TransformerName |-> n])

escapeSubsetConds(conds) == [i \in DOMAIN conds |-> "( " \o conds[i] \o " )"]

\* the types the driver can resolve
KnownTypes == {"int4", "int8", "text", "uuid", "date", "interval", "jsonb", "_int4"}

\* toolkit.NewDriver: fatal when a column's type cannot be resolved
NewDriverWarnings(t) ==
    LET cs == Columns(t)
        one(col) == IF GetType(col) \in KnownTypes THEN <<>>
                    ELSE <<NewWarning(ErrorValidationSeverity, "unsupported column type",
                                      [ColumnName |-> col.Name, TypeName |-> GetType(col)])>>
    IN  SeqFlatten([i \in DOMAIN cs |-> one(cs[i])])

NewDriver(t) ==
    [columns |-> [i \in DOMAIN Columns(t) |->
                     [Name |-> Columns(t)[i].Name, Type |-> GetType(Columns(t)[i])]]]

\* toolkit.NewWhenCond: fatal when the condition names a column the driver's
\* table does not have
NewWhenCondWarnings(when, driver, t) ==
    LET names == WhenColumnsFrom(when, 1)
        one(n) == IF \E i \in DOMAIN driver.columns : driver.columns[i].Name = n THEN <<>>
                  ELSE <<NewWarning(ErrorValidationSeverity, "cannot compile when condition",
                                    [TableSchema |-> entry[t].Schema, TableName |-> entry[t].Name])>>
    IN  SeqFlatten([i \in DOMAIN names |-> one(names[i])])

\* the columns after setColumnTypeOverrides(t, c): OverrideType on the column
\* objects t.Columns points at
ColumnsAfterOverrides(t, c) ==
    [columns EXCEPT ![entry[t].ColumnsRef] =
        [i \in DOMAIN @ |->
            LET col == @[i]
            IN  IF col.Name \in DOMAIN c.ColumnsTypeOverride
                THEN [col EXCEPT !.OverriddenType = c.ColumnsTypeOverride[col.Name]]
                ELSE col]]

\* extractColumnNamesFromParam: the names of a JSON array of objects, those
\* without a name left out
extractColumnNamesFromParam(param) ==
    SeqFlatten([i \in DOMAIN param |-> IF param[i].name # "" THEN <<param[i].name>> ELSE <<>>])

\* extractColumnNamesFromTransformer: [names, err]
extractColumnNamesFromTransformer(transformer) ==
    IF ~RegistryHas(transformer.Name)
    THEN [names |-> <<>>, err |-> "transformer not found in registry"]
    ELSE LET defs == Registry[transformer.Name].Parameters
             one(paramDef) ==
                 IF paramDef.Name \notin DOMAIN transformer.Params THEN <<>>
                 ELSE IF paramDef.IsColumn THEN <<transformer.Params[paramDef.Name]>>
                 ELSE IF paramDef.IsColumnContainer
                 THEN extractColumnNamesFromParam(transformer.Params[paramDef.Name])
                 ELSE <<>>
         IN  [names |-> SeqFlatten([i \in DOMAIN defs |-> one(defs[i])]), err |-> "nil"]

\* every column gets a default, also the configured, skipped, generated and key ones
UndefinedColumns_All(cols, primaryKey, tableConfig) == cols

\* the columns of cols, in order, that get a default transformer
UndefinedColumns(cols, primaryKey, tableConfig) ==
    LET trs == tableConfig.Transformers
        definedColumns ==
            {n \in {cols[i].Name : i \in DOMAIN cols} :
                \E j \in DOMAIN trs :
                    n \in Range(extractColumnNamesFromTransformer(trs[j]).names)}
    IN  SelectSeq(cols, LAMBDA column :
            /\ column.Name \notin definedColumns
            /\ column.Name \notin tableConfig.SkipAutoAnonymize
            /\ ~column.IsGenerated
            /\ column.Name \notin Range(primaryKey))

\* generateDefaultTransformersForUndefinedColumns on a table with columns
\* cols: [trs, err]; the first error ends the call
generateDefaultTransformersForUndefinedColumns(cols, primaryKey, tableConfig) ==
    LET trs == tableConfig.Transformers
        todo == UndefinedColumns(cols, primaryKey, tableConfig)
    IN  IF \E j \in DOMAIN trs : extractColumnNamesFromTransformer(trs[j]).err # "nil"
        THEN [trs |-> <<>>, err |-> "failed to extract column names from transformer"]
        ELSE IF \E i \in DOMAIN todo : GetDefaultTransformerForColumn(todo[i]).err # "nil"
        THEN [trs |-> <<>>, err |-> "error getting default transformer for column"]
        ELSE [trs |-> SeqFlatten([i \in DOMAIN todo |->
                          GetDefaultTransformerForColumn(todo[i]).cfg]),
              err |-> "nil"]

\* initTransformer: the context and the warnings of one transformer
initTransformer(driver, tc) ==
    IF ~RegistryHas(tc.Name)
    THEN [ctx |-> [Nil |-> TRUE, Name |-> "", Params |-> EmptyMap, When |-> <<>>],
          warnings |-> <<NewWarning(ErrorValidationSeverity, "transformer not found", EmptyMap)>>]
    ELSE IF \E i \in DOMAIN driver.columns : driver.columns[i].Name = Param(tc, columnParameterName)
    THEN [ctx |-> [Nil |-> FALSE, Name |-> tc.Name, Params |-> tc.Params, When |-> tc.When],
          warnings |-> <<>>]
    ELSE [ctx |-> [Nil |-> FALSE, Name |-> tc.Name, Params |-> tc.Params, When |-> tc.When],
          warnings |-> <<NewWarning(ErrorValidationSeverity, "column not found",
                                    [ParameterName |-> columnParameterName])>>]

\* the loop of initAndSetupTransformers over the table config's transformers
InitAll(driver, trs) ==
    [ctxs |-> [i \in DOMAIN trs |-> initTransformer(driver, trs[i]).ctx],
     warnings |-> SeqFlatten([i \in DOMAIN trs |->
                     enrichWarningsWithTransformerName(initTransformer(driver, trs[i]).warnings,
                                                       trs[i].Name)])]

\* tableExistsQuery: whether the catalog has a table of that schema and name
TableExists(c) ==
    \E t \in DOMAIN entry : /\ NameMatches(c.Name, entry[t].Name)
                            /\ NameMatches(c.Schema, entry[t].Schema)

validateTableExists(c) ==
    IF TableExists(c) THEN <<>>
    ELSE <<NewWarning(ErrorValidationSeverity, "table is not found",
                      [Schema |-> c.Schema, TableName |-> c.Name])>>

validateConfigTables == SeqFlatten([i \in DOMAIN cfg |-> validateTableExists(heap[cfg[i]])])

\* lines 61-73: table existence, then findTablesWithTransformers
ValidateConfigTables ==
    /\ pc = "start"
    /\ LET tableConfigExistsWarns == validateConfigTables
       IN  /\ warnings' = warnings \o tableConfigExistsWarns
           /\ IF IsFatal(tableConfigExistsWarns)
              THEN /\ ret' = [warnings |-> tableConfigExistsWarns, err |-> "nil"]
                   /\ pc' = "fatal"
                   /\ UNCHANGED work
              ELSE /\ work' = findTablesWithTransformers
                   /\ pc' = "setConfig"
                   /\ UNCHANGED ret
    /\ UNCHANGED <<call, first, tables, entry, columns, edges, parts, cfg, heap, autoAnonymize,
                   res, setConfigWarns, pos>>

\* One iteration of the loop at lines 78-135, on res[pos + 1]
BuildEntry ==
    /\ pc = "loop"
    /\ pos < Len(res)
    /\ LET t == res[pos + 1].entry
           id == res[pos + 1].config
           c == heap[id]
           e1 == [entry[t] EXCEPT !.SubsetConds = escapeSubsetConds(c.SubsetConds),
                                  !.Query = c.Query]
           driverWarnings == enrichWarningsWithTableName(NewDriverWarnings(t), t)
           driver == NewDriver(t)
           whenCondWarns == NewWhenCondWarnings(c.When, driver, t)
           columns1 == ColumnsAfterOverrides(t, c)
           \* initAndSetupTransformers, lines 706-712
           gen == IF autoAnonymize
                  THEN generateDefaultTransformersForUndefinedColumns(
                           columns1[entry[t].ColumnsRef], entry[t].PrimaryKey, c)
                  ELSE [trs |-> <<>>, err |-> "nil"]
           trs == c.Transformers \o gen.trs
           init == InitAll(driver, trs)
           transformersInitWarns == enrichWarningsWithTableName(init.warnings, t)
       IN  IF IsFatal(driverWarnings)
           THEN /\ entry' = [entry EXCEPT ![t] = e1]
                /\ warnings' = warnings \o driverWarnings
                /\ ret' = [warnings |-> driverWarnings, err |-> "nil"]
                /\ pc' = "fatal"
                /\ UNCHANGED <<columns, heap, pos>>
           ELSE IF IsFatal(whenCondWarns)
           THEN /\ entry' = [entry EXCEPT ![t] = [e1 EXCEPT !.Driver = driver]]
                /\ warnings' = warnings \o driverWarnings \o whenCondWarns
                /\ ret' = [warnings |-> whenCondWarns, err |-> "nil"]
                /\ pc' = "fatal"
                /\ UNCHANGED <<columns, heap, pos>>
           ELSE IF gen.err # "nil"
           THEN \* lines 129-134: the error of initAndSetupTransformers is returned
                /\ entry' = [entry EXCEPT ![t] = [e1 EXCEPT !.Driver = driver, !.When = c.When]]
                /\ columns' = columns1
                /\ warnings' = warnings \o driverWarnings \o whenCondWarns
                /\ ret' = [warnings |-> <<>>,
                           err |-> "cannot initialise and set transformers for table"]
                /\ pc' = "error"
                /\ UNCHANGED <<heap, pos>>
           ELSE /\ entry' = [entry EXCEPT ![t] =
                               [e1 EXCEPT !.Driver = driver,
                                          !.When = c.When,
                                          !.TransformersContext = @ \o init.ctxs]]
                /\ columns' = columns1
                /\ heap' = [heap EXCEPT ![id].Transformers = trs]
                /\ warnings' = warnings \o driverWarnings \o whenCondWarns \o transformersInitWarns
                /\ pos' = pos + 1
                /\ UNCHANGED <<pc, ret>>
    /\ UNCHANGED <<call, first, tables, edges, parts, cfg, autoAnonymize, work, res, setConfigWarns>>

\* line 137
Return ==
    /\ pc = "loop"
    /\ pos = Len(res)
    /\ ret' = [warnings |-> warnings, err |-> "nil"]
    /\ pc' = "done"
    /\ UNCHANGED <<call, first, tables, entry, columns, edges, parts, cfg, heap, autoAnonymize,
                   work, res, setConfigWarns, pos, warnings>>

----------------------------------------------------------------------------
(* The inputs: a catalog snapshot, an FK graph and a user config *)

\* no function call under study; no first run yet
NoCall == [fn |-> "none"]
NoFirst == [set |-> FALSE]

\* the number of leaf partitions the catalog returns for a partitioned parent
MaxLeaves == 2

\* table keys: users, orders, order_items, comments, and the leaf partitions
T == [U |-> 1, O |-> 2, I |-> 3, C |-> 4]
Leaf(i) == 4 + i
OidOf(t) == 16384 + t

Col(name, type) ==
    [Name |-> name, TypeName |-> type, CanonicalTypeName |-> "", IsGenerated |-> FALSE,
     OverriddenType |-> ""]

ColumnsOf(t) ==
    CASE t = T.U -> <<Col("tenant_id", "int4"), Col("id", "int4"), Col("name", "text")>>
      [] t = T.O -> <<Col("id", "int4"), Col("tenant_id", "int4"), Col("user_id", "int4"),
                      Col("note", "text")>>
      [] t = T.I -> <<Col("id", "int4"), Col("order_id", "int4"), Col("qty", "int4")>>
      [] t = T.C -> <<Col("id", "int4"), Col("order_id", "int4"), Col("body", "text")>>

Tr(name, params, afr, when) ==
    [Name |-> name, Params |-> params, ApplyForReferences |-> afr, When |-> when]

TableCfg(name, trs, afi) ==
    [Schema |-> "public", Name |-> name, Transformers |-> trs, ApplyForInherited |-> afi,
     ColumnsTypeOverride |-> EmptyMap, SubsetConds |-> <<>>, Query |-> "", When |-> <<>>,
     SkipAutoAnonymize |-> {}]

WhenOnId == <<"record", ".", "id", " > 0 && ", "raw_", "record", ".", "id", " != null">>
WhenOnName == <<"record", ".", "name", " != ''">>

\* the transformer lists tried on users
RootTransformerChoices ==
    LET hashId      == Tr("Hash", [column |-> "id", engine |-> "hash"], TRUE, <<>>)
        hashNoEng   == Tr("Hash", [column |-> "id"], TRUE, <<>>)
        hashTenant  == Tr("Hash", [column |-> "tenant_id", engine |-> "hash"], TRUE, <<>>)
        hashPlain   == Tr("Hash", [column |-> "id", engine |-> "hash"], FALSE, <<>>)
        hashWhen    == Tr("Hash", [column |-> "id", engine |-> "hash"], TRUE, WhenOnId)
        hashWhenNm  == Tr("Hash", [column |-> "id", engine |-> "hash"], TRUE, WhenOnName)
        intHash     == Tr("RandomInt", [column |-> "id", engine |-> "hash", min |-> "1"], TRUE, <<>>)
        intRandom   == Tr("RandomInt", [column |-> "id", engine |-> "random"], TRUE, <<>>)
        strName     == Tr("RandomString", [column |-> "name"], TRUE, <<>>)
        uuidHash    == Tr("RandomUuid", [column |-> "id", engine |-> "hash"], TRUE, <<>>)
    IN  {<<hashId>>, <<hashNoEng>>, <<hashTenant>>, <<hashPlain>>, <<hashWhen>>, <<hashWhenNm>>,
         <<intHash>>, <<intRandom>>, <<strName>>, <<uuidHash>>,
         <<hashId, strName>>, <<strName, intRandom>>, <<hashTenant, intHash>>}

\* what the user configured on orders
OrdersTransformers(kind) ==
    CASE kind = "manual" -> <<Tr("Hash", [column |-> "user_id", engine |-> "hash"], FALSE, <<>>)>>
      [] kind = "other"  -> <<Tr("RandomString", [column |-> "note"], FALSE, <<>>)>>
      [] kind = "root"   -> <<Tr("Hash", [column |-> "id", engine |-> "hash"], TRUE, <<>>)>>

LeafTransformers == <<Tr("RandomInt", [column |-> "id", engine |-> "random"], FALSE, <<>>)>>

Reverse(s) == [i \in DOMAIN s |-> s[Len(s) + 1 - i]]

Params ==
    [comp : BOOLEAN, pkO : {"id", "user_id"}, e2 : {"none", "id", "order_id"},
     e3 : {"none", "id"}, quoted : BOOLEAN, part : {"none", "U", "O"},
     nLeaves : 0..MaxLeaves, afi : BOOLEAN, leafCfg : BOOLEAN, rev : BOOLEAN, cfgRev : BOOLEAN,
     rootTrs : RootTransformerChoices, oCfg : {"none", "manual", "other", "root"}]

\* one representative per input: the fields a scenario does not read are fixed
Canonical(p) ==
    /\ p.part = "none" => p.nLeaves = 0 /\ ~p.afi /\ ~p.leafCfg
    /\ p.part # "none" => p.e2 = "none" /\ p.e3 = "none" /\ ~p.comp /\ p.pkO = "id" /\ ~p.quoted
    /\ p.part # "none" => p.oCfg \in {"none", "other"}
    /\ p.nLeaves = 0 => ~p.leafCfg
    /\ p.oCfg = "none" => ~p.quoted
    /\ (p.oCfg = "none" /\ ~p.leafCfg) => ~p.cfgRev

InScope(p) ==
    LET base == <<T.U, T.O>> \o (IF p.e2 # "none" THEN <<T.I>> ELSE <<>>)
                \o (IF p.e3 # "none" THEN <<T.C>> ELSE <<>>)
                \o [i \in 1..p.nLeaves |-> Leaf(i)]
    IN  IF p.rev THEN Reverse(base) ELSE base

ParentOf(p) == IF p.part = "U" THEN T.U ELSE T.O

EntryName(p, t) ==
    CASE t = T.U -> "users"
      [] t = T.O -> IF p.quoted THEN Quote("Orders") ELSE "orders"
      [] t = T.I -> "order_items"
      [] t = T.C -> "comments"
      [] t = Leaf(1) -> "part_1"
      [] t = Leaf(2) -> "part_2"
      [] OTHER -> "part_n"

PrimaryKeyOf(p, t) ==
    CASE t = T.U -> IF p.comp THEN <<"tenant_id", "id">> ELSE <<"id">>
      [] t = T.O -> <<p.pkO>>
      [] t = T.I -> <<p.e2>>
      [] t = T.C -> <<p.e3>>
      [] OTHER -> IF p.part = "U" THEN <<"id">> ELSE <<"id">>

NewEntry(p, t) ==
    [Schema |-> "public", Name |-> EntryName(p, t), Oid |-> OidOf(t),
     RelKind |-> IF p.part # "none" /\ t = ParentOf(p) THEN "p" ELSE "r",
     PrimaryKey |-> PrimaryKeyOf(p, t),
     ColumnsRef |-> t,
     RootPtName |-> "", RootPtSchema |-> "", RootPtOid |-> 0,
     SubsetConds |-> <<>>, Query |-> "", When |-> <<>>,
     Driver |-> [columns |-> <<>>], TransformersContext |-> <<>>]

\* the reversed graph: From is the referenced table with its primary key,
\* To the referencing table with its FK columns
EdgesOf(p) ==
    LET e1 == <<[from |-> [table |-> T.U, keys |-> PrimaryKeyOf(p, T.U)],
                 to |-> [table |-> T.O,
                         keys |-> IF p.comp THEN <<"tenant_id", "user_id">> ELSE <<"user_id">>]]>>
        e2 == IF p.e2 = "none" THEN <<>>
              ELSE <<[from |-> [table |-> T.O, keys |-> PrimaryKeyOf(p, T.O)],
                      to |-> [table |-> T.I, keys |-> <<"order_id">>]]>>
        e3 == IF p.e3 = "none" THEN <<>>
              ELSE <<[from |-> [table |-> T.O, keys |-> PrimaryKeyOf(p, T.O)],
                      to |-> [table |-> T.C, keys |-> <<"order_id">>]]>>
        es == IF p.rev THEN e3 \o e2 \o e1 ELSE e1 \o e2 \o e3
    IN  [i \in DOMAIN es |-> [id |-> i - 1, from |-> es[i].from, to |-> es[i].to]]

UserConfig(p) ==
    LET u == <<TableCfg("users", p.rootTrs, p.part = "U" /\ p.afi)>>
        o == IF p.oCfg = "none" THEN <<>>
             ELSE <<TableCfg(IF p.quoted THEN "Orders" ELSE "orders",
                             OrdersTransformers(p.oCfg), p.part = "O" /\ p.afi)>>
        l == IF p.leafCfg THEN <<TableCfg("part_1", LeafTransformers, FALSE)>> ELSE <<>>
        all == u \o o \o l
    IN  IF p.cfgRev THEN Reverse(all) ELSE all

Init ==
    \E p \in Params :
        /\ Canonical(p)
        /\ pc = "start"
        /\ tables = InScope(p)
        /\ entry = [t \in Range(InScope(p)) |-> NewEntry(p, t)]
        /\ columns = [t \in Range(InScope(p)) |->
                         IF t \in {T.U, T.O, T.I, T.C} THEN ColumnsOf(t) ELSE ColumnsOf(ParentOf(p))]
        /\ edges = EdgesOf(p)
        /\ parts = [t \in Range(InScope(p)) |->
                       IF p.part # "none" /\ t = ParentOf(p)
                       THEN [i \in 1..MaxLeaves |-> OidOf(Leaf(i))] ELSE <<>>]
        /\ heap = UserConfig(p)
        /\ cfg = [i \in DOMAIN UserConfig(p) |-> i]
        /\ autoAnonymize = FALSE
        /\ work = <<>>
        /\ res = <<>>
        /\ setConfigWarns = <<>>
        /\ pos = 0
        /\ warnings = <<>>
        /\ ret = [warnings |-> <<>>, err |-> "none"]
        /\ call = NoCall
        /\ first = NoFirst

Next ==
    \/ ValidateConfigTables
    \/ SetConfigStep
    \/ SetConfigReturn
    \/ BuildEntry
    \/ Return

Spec == Init /\ [][Next]_vars

----------------------------------------------------------------------------
(* Vocabulary of the properties *)

\* setConfigToEntries has just returned: res and setConfigWarns are its results
SetConfigReturned == pc = "loop" /\ pos = 0

\* a binding whose config the reference walk allocated
IsPropagated(b) == b.config > Len(cfg)

TransformersOf(b) == heap[b.config].Transformers

\* the user config holds a transformer of that name on that column for that
\* table, under the tolerance that binds configs to tables
ManualExists(t, name, col) ==
    \E i \in DOMAIN cfg :
        /\ NameMatches(heap[cfg[i]].Name, entry[t].Name)
        /\ NameMatches(heap[cfg[i]].Schema, entry[t].Schema)
        /\ \E j \in DOMAIN heap[cfg[i]].Transformers :
               /\ heap[cfg[i]].Transformers[j].Name = name
               /\ Param(heap[cfg[i]].Transformers[j], "column") = col

HasPropagated(t) == \E k \in DOMAIN res : IsPropagated(res[k]) /\ res[k].entry = t

PropagatedOn(t, name, col) ==
    \E k \in DOMAIN res :
        /\ IsPropagated(res[k])
        /\ res[k].entry = t
        /\ \E j \in DOMAIN TransformersOf(res[k]) :
               /\ TransformersOf(res[k])[j].Name = name
               /\ Param(TransformersOf(res[k])[j], "column") = col

KeySet(e) == Range(e.to.keys)
PkSet(t) == Range(entry[t].PrimaryKey)

\* the registry refuses apply_for_references for the transformer
RefusedByRegistry(tr) ==
    tr.ApplyForReferences /\ tr.Name \in DOMAIN Registry /\ Registry[tr.Name].allow = "false"

\* no apply_for_references transformer of the config draws an error
ReferenceCheckPasses(c) ==
    \A j \in DOMAIN c.Transformers :
        c.Transformers[j].ApplyForReferences =>
            /\ c.Transformers[j].Name \in DOMAIN Registry
            /\ Registry[c.Transformers[j].Name].allow = "true"
            /\ Registry[c.Transformers[j].Name].requireHash = "true"
                   => Param(c.Transformers[j], "engine") = "hash"

IsRoot(i) == \E j \in DOMAIN heap[work[i].config].Transformers :
                 heap[work[i].config].Transformers[j].ApplyForReferences

ErrorsNaming(name) ==
    {k \in DOMAIN setConfigWarns :
        /\ setConfigWarns[k].severity = "error"
        /\ "TransformerName" \in DOMAIN setConfigWarns[k].meta
        /\ setConfigWarns[k].meta.TransformerName = name}

----------------------------------------------------------------------------
(* C1 *)

\* C1: when a configured (non-partitioned) table has exactly one
\* apply_for_references transformer and the registry refuses it, then
\* setConfigToEntries emits one error-severity warning for it, no table that
\* references the configured table gets a propagated binding, and the
\* configured table's own binding is still returned.
C1_RefusedKeepsOriginalBinding ==
    SetConfigReturned =>
        \A i \in DOMAIN work :
            LET c == heap[work[i].config]
                refs == {j \in DOMAIN c.Transformers : c.Transformers[j].ApplyForReferences}
            IN  (/\ entry[work[i].entry].RelKind # "p"
                 /\ Cardinality(refs) = 1
                 /\ \A j \in refs : RefusedByRegistry(c.Transformers[j]))
                => /\ \A j \in refs : Cardinality(ErrorsNaming(c.Transformers[j].Name)) = 1
                   /\ \A e \in Range(edges) :
                          e.from.table = work[i].entry => ~HasPropagated(e.to.table)
                   /\ \E k \in DOMAIN res : res[k] = work[i]

----------------------------------------------------------------------------
(* C2 *)

\* C2: no propagated binding holds a transformer whose (table, name, column)
\* the user config already binds manually, the table being matched with the
\* quoting tolerance that binds configs to tables.
C2_NoPropagationOverManual ==
    SetConfigReturned =>
        \A k \in DOMAIN res :
            IsPropagated(res[k]) =>
                \A j \in DOMAIN TransformersOf(res[k]) :
                    ~ManualExists(res[k].entry, TransformersOf(res[k])[j].Name,
                                  Param(TransformersOf(res[k])[j], "column"))

----------------------------------------------------------------------------
(* C3 *)

\* C3: no binding returned by setConfigToEntries is on a table of partition
\* kind 'p'.
C3_NoPartitionedParentBinding ==
    SetConfigReturned => \A k \in DOMAIN res : entry[res[k].entry].RelKind # "p"

----------------------------------------------------------------------------
(* C4 *)

\* C4: beyond the first level, a table holds a propagated transformer on a
\* column of an FK edge only if an FK column of that edge is in the table's
\* own primary key (edge by edge).
C4_EndToEndPerEdge ==
    SetConfigReturned =>
        \A i \in DOMAIN work :
            (IsRoot(i) /\ \A i2 \in DOMAIN work : IsRoot(i2) => i2 = i) =>
                \A e \in Range(edges) :
                    (/\ e.from.table # work[i].entry
                     /\ \E col \in KeySet(e) : \E name \in DOMAIN Registry :
                            PropagatedOn(e.to.table, name, col))
                    => KeySet(e) \cap PkSet(e.to.table) # {}

----------------------------------------------------------------------------
(* C5 *)

\* the only configured table with an apply_for_references transformer
IsOnlyRoot(i) == IsRoot(i) /\ \A i2 \in DOMAIN work : IsRoot(i2) => i2 = i

\* the transformer takes part in the walk from table t with config c
Qualifies(t, c, tr) ==
    /\ ReferenceCheckPasses(c)
    /\ tr.ApplyForReferences
    /\ Param(tr, "engine") = "hash"
    /\ Param(tr, "column") \in PkSet(t)

\* the FK column of edge e at the ordinal position col has in t's primary key
FkColumnFor(t, col, e) ==
    e.to.keys[CHOOSE n \in DOMAIN entry[t].PrimaryKey : entry[t].PrimaryKey[n] = col]

\* the first-level child of edge e holds every qualifying transformer of root
\* work[i] that the user did not bind manually on the child
ChildReceives(i, e) ==
    LET t == work[i].entry
        c == heap[work[i].config]
    IN  \A j \in DOMAIN c.Transformers :
            (/\ Qualifies(t, c, c.Transformers[j])
             /\ ~ManualExists(e.to.table, c.Transformers[j].Name,
                              FkColumnFor(t, Param(c.Transformers[j], "column"), e)))
            => PropagatedOn(e.to.table, c.Transformers[j].Name,
                            FkColumnFor(t, Param(c.Transformers[j], "column"), e))

\* C5: when one table is the only propagation root, a first-level child
\* whose FK columns are outside its primary key receives the transformer, and
\* no table referencing that child receives a propagated binding.
C5_StopsAtNonIdentifyingChild ==
    SetConfigReturned =>
        \A i \in DOMAIN work :
            IsOnlyRoot(i) =>
                \A e \in Range(edges) :
                    (e.from.table = work[i].entry /\ KeySet(e) \cap PkSet(e.to.table) = {})
                    => /\ ChildReceives(i, e)
                       /\ \A e2 \in Range(edges) :
                              e2.from.table = e.to.table => ~HasPropagated(e2.to.table)

----------------------------------------------------------------------------
(* C6 *)

\* every first-level child holds, for every qualifying root transformer not
\* bound manually on the child, a clone that differs from the root
\* transformer in the column parameter only
ClonesOnChildren ==
    SetConfigReturned =>
        \A i \in DOMAIN work :
            LET t == work[i].entry
                c == heap[work[i].config]
            IN  \A e \in Range(edges) :
                    e.from.table = t =>
                        \A j \in DOMAIN c.Transformers :
                            LET tr == c.Transformers[j]
                                col == FkColumnFor(t, Param(tr, "column"), e)
                            IN  (Qualifies(t, c, tr) /\ ~ManualExists(e.to.table, tr.Name, col))
                                => \E k \in DOMAIN res :
                                       /\ IsPropagated(res[k])
                                       /\ res[k].entry = e.to.table
                                       /\ \E m \in DOMAIN TransformersOf(res[k]) :
                                              /\ TransformersOf(res[k])[m].Name = tr.Name
                                              /\ TransformersOf(res[k])[m].Params
                                                     = [tr.Params EXCEPT !.column = col]

\* setConfigToEntries leaves every user config object as it was
UserConfigsKept == pc = "setConfig" => \A i \in DOMAIN cfg : heap'[cfg[i]] = heap[cfg[i]]

\* C6: every table with an FK edge to a configured root holds a clone of each
\* qualifying root transformer (apply_for_references, engine hash, column in
\* the root's primary key, reference check passed, not bound manually on the
\* child); the clone's column is the child's FK column at the ordinal
\* position of the transformed column in the root's primary key, its name and
\* other parameters are the root's, and the root's config stays unchanged.
C6_CloneOnChildFkColumn == []ClonesOnChildren /\ [][UserConfigsKept]_vars

\* a root with a composite primary key whose second column is transformed,
\* and the clone sits on the second FK column of the child
C6_Witness ==
    /\ SetConfigReturned
    /\ \E i \in DOMAIN work :
           LET t == work[i].entry
               c == heap[work[i].config]
           IN  \E e \in Range(edges) : \E j \in DOMAIN c.Transformers :
                   /\ e.from.table = t
                   /\ Qualifies(t, c, c.Transformers[j])
                   /\ Len(entry[t].PrimaryKey) = 2
                   /\ Param(c.Transformers[j], "column") = entry[t].PrimaryKey[2]
                   /\ PropagatedOn(e.to.table, c.Transformers[j].Name, e.to.keys[2])

----------------------------------------------------------------------------
(* C7 *)

\* C7: an apply_for_references transformer on a primary-key column is
\* propagated to every referencing table (not bound manually) whenever the
\* registry allows it and either does not require the hash engine or the
\* engine parameter is hash.
C7_PropagatedWhenRegistryAllows ==
    SetConfigReturned =>
        \A i \in DOMAIN work :
            LET t == work[i].entry
                c == heap[work[i].config]
            IN  \A j \in DOMAIN c.Transformers :
                    LET tr == c.Transformers[j]
                    IN  (/\ ReferenceCheckPasses(c)
                         /\ tr.ApplyForReferences
                         /\ Registry[tr.Name].allow = "true"
                         /\ Registry[tr.Name].requireHash # "true" \/ Param(tr, "engine") = "hash"
                         /\ Param(tr, "column") \in PkSet(t))
                        => \A e \in Range(edges) :
                               (/\ e.from.table = t
                                /\ ~ManualExists(e.to.table, tr.Name,
                                                 FkColumnFor(t, Param(tr, "column"), e)))
                               => PropagatedOn(e.to.table, tr.Name,
                                               FkColumnFor(t, Param(tr, "column"), e))

----------------------------------------------------------------------------
(* C8, C9, C10 *)

\* work[i] binds a partitioned parent
IsPartitionedParent(i) == entry[work[i].entry].RelKind = "p"

\* the bindings of table t that carry the config object of work[i]
BindingsWith(t, i) == {k \in DOMAIN res : res[k].entry = t /\ res[k].config = work[i].config}

\* the in-scope tables that are leaves of the parent work[i] binds
LeavesOf(i) ==
    {t \in Range(tables) :
        \E n \in DOMAIN parts[work[i].entry] : parts[work[i].entry][n] = entry[t].Oid}

\* C8: a configured partitioned parent with apply_for_inherited yields exactly
\* one binding per in-scope leaf partition, carrying the parent's transformer
\* config, with the parent's schema, name and oid in the leaf's RootPt
\* fields, and no binding for the parent itself; a leaf that is not in scope
\* has no entry and so no binding.
C8_OneInheritedBindingPerLeaf ==
    SetConfigReturned =>
        \A i \in DOMAIN work :
            (IsPartitionedParent(i) /\ heap[work[i].config].ApplyForInherited)
            => /\ \A t \in LeavesOf(i) :
                      /\ Cardinality(BindingsWith(t, i)) = 1
                      /\ entry[t].RootPtSchema = entry[work[i].entry].Schema
                      /\ entry[t].RootPtName = entry[work[i].entry].Name
                      /\ entry[t].RootPtOid = entry[work[i].entry].Oid
               /\ \A k \in DOMAIN res : res[k].entry # work[i].entry

\* the transformer contexts a list of transformer configs initialises to
ChainOf(trs) ==
    [k \in DOMAIN trs |->
        [Nil |-> FALSE, Name |-> trs[k].Name, Params |-> trs[k].Params, When |-> trs[k].When]]

\* C9: when a partitioned parent with apply_for_inherited and one of its
\* leaves are both configured, and the parent's transformers pass the
\* reference check, the leaf's final transformer chain is the parent's
\* transformers followed by the leaf's own, whatever the order of the two in
\* the table list and in the user config.
C9_ParentChainThenLeafChain ==
    pc = "done" =>
        \A i \in DOMAIN work : \A j \in DOMAIN work :
            (/\ IsPartitionedParent(i)
             /\ heap[work[i].config].ApplyForInherited
             /\ ReferenceCheckPasses(heap[work[i].config])
             /\ work[j].entry \in LeavesOf(i))
            => entry[work[j].entry].TransformersContext
                   = ChainOf(heap[work[i].config].Transformers)
                     \o ChainOf(heap[work[j].config].Transformers)

\* the error warnings that tell table t is partitioned
PartitionedErrors(t) ==
    {k \in DOMAIN setConfigWarns :
        /\ setConfigWarns[k].severity = ErrorValidationSeverity
        /\ setConfigWarns[k].meta = [SchemaName |-> entry[t].Schema, TableName |-> entry[t].Name]}

\* C10: a configured partitioned parent without apply_for_inherited, whose
\* transformers pass the reference check, yields one error warning about the
\* partitioned table and no binding for the parent, none carrying its config
\* for its partitions, and the other configured tables keep their own bindings.
C10_PartitionedWithoutInheritedSkipped ==
    SetConfigReturned =>
        \A i \in DOMAIN work :
            (/\ IsPartitionedParent(i)
             /\ ~heap[work[i].config].ApplyForInherited
             /\ ReferenceCheckPasses(heap[work[i].config]))
            => /\ Cardinality(PartitionedErrors(work[i].entry)) = 1
               /\ \A k \in DOMAIN res :
                      res[k].entry # work[i].entry /\ res[k].config # work[i].config
               /\ \A j \in DOMAIN work :
                      (/\ j # i
                       /\ ~IsPartitionedParent(j)
                       /\ ReferenceCheckPasses(heap[work[j].config]))
                      => \E k \in DOMAIN res : res[k] = work[j]

----------------------------------------------------------------------------
(* The builder on inputs that exercise the per-binding loop, run twice on   *)
(* the same config objects and table entries                                *)

\* the transformer lists tried on users
UsersTransformers(kind) ==
    CASE kind = "hash"       -> <<Tr("Hash", [column |-> "id", engine |-> "hash"], FALSE, <<>>)>>
      [] kind = "refs"       -> <<Tr("Hash", [column |-> "id", engine |-> "hash"], TRUE, <<>>)>>
      [] kind = "refused"    -> <<Tr("RandomString", [column |-> "name"], TRUE, <<>>)>>
      [] kind = "whenName"   -> <<Tr("Hash", [column |-> "id", engine |-> "hash"], TRUE, WhenOnName)>>
      [] kind = "unknown"    -> <<Tr("NoSuchTransformer", [column |-> "name"], FALSE, <<>>)>>
      [] kind = "missingCol" -> <<Tr("RandomString", [column |-> "surname"], FALSE, <<>>)>>
      [] kind = "person"     -> <<Tr("RandomPerson",
                                     [columns |-> <<[name |-> "name"], [name |-> ""]>>,
                                      engine |-> "random"], FALSE, <<>>)>>

\* the fields only auto_anonymize reads are fixed without it
BuildParams ==
    {b \in [auto : BOOLEAN, extra : {"text", "interval", "unknown_type", "_int4"},
            gen : BOOLEAN, skip : BOOLEAN,
            uTrs : {"hash", "refs", "refused", "whenName", "unknown", "missingCol", "person"},
            uWhen : {"none", "id", "note"}, oCfg : {"none", "other"},
            oExtra : {"none", "interval", "unknown_type"}, ghost : BOOLEAN] :
        /\ ~b.auto => ~b.gen /\ ~b.skip /\ b.extra \in {"text", "unknown_type"}
                      /\ b.oExtra \in {"none", "unknown_type"}
        /\ b.ghost => b.uTrs = "hash" /\ b.uWhen = "none" /\ b.oCfg = "none"
                      /\ b.oExtra = "none" /\ b.extra = "text"}

\* users and orders of the catalog, orders referencing users
PlainCatalog ==
    [comp |-> FALSE, pkO |-> "id", e2 |-> "none", e3 |-> "none", quoted |-> FALSE,
     part |-> "none", nLeaves |-> 0, afi |-> FALSE, leafCfg |-> FALSE, rev |-> FALSE,
     cfgRev |-> FALSE, rootTrs |-> <<>>, oCfg |-> "none"]

BuildColumnsOf(b, t) ==
    IF t = T.U
    THEN <<Col("tenant_id", "int4"), Col("id", "int4"),
           [Col("name", "text") EXCEPT !.IsGenerated = b.gen], Col("extra", b.extra)>>
    ELSE ColumnsOf(T.O) \o (IF b.oExtra = "none" THEN <<>> ELSE <<Col("blob", b.oExtra)>>)

BuildUserConfig(b) ==
    << [TableCfg("users", UsersTransformers(b.uTrs), FALSE) EXCEPT
          !.When = CASE b.uWhen = "none" -> <<>> [] b.uWhen = "id" -> WhenOnId
                     [] b.uWhen = "note" -> <<"record", ".", "note", " != ''">>,
          !.SkipAutoAnonymize = IF b.skip THEN {"tenant_id"} ELSE {},
          !.SubsetConds = <<"active = true">>,
          !.Query = "SELECT * FROM users"] >>
    \o (IF b.oCfg = "other" THEN <<TableCfg("orders", OrdersTransformers("other"), FALSE)>>
        ELSE <<>>)
    \o (IF b.ghost THEN <<TableCfg("ghosts", OrdersTransformers("other"), FALSE)>> ELSE <<>>)

InitBuild ==
    \E b \in BuildParams :
        /\ pc = "start"
        /\ tables = InScope(PlainCatalog)
        /\ entry = [t \in Range(InScope(PlainCatalog)) |-> NewEntry(PlainCatalog, t)]
        /\ columns = [t \in Range(InScope(PlainCatalog)) |-> BuildColumnsOf(b, t)]
        /\ edges = EdgesOf(PlainCatalog)
        /\ parts = [t \in Range(InScope(PlainCatalog)) |-> <<>>]
        /\ heap = BuildUserConfig(b)
        /\ cfg = [i \in DOMAIN BuildUserConfig(b) |-> i]
        /\ autoAnonymize = b.auto
        /\ work = <<>>
        /\ res = <<>>
        /\ setConfigWarns = <<>>
        /\ pos = 0
        /\ warnings = <<>>
        /\ ret = [warnings |-> <<>>, err |-> "none"]
        /\ call = NoCall
        /\ first = NoFirst

\* the builder has returned
Returned == pc \in {"done", "fatal", "error"}

\* the bindings of the run: each bound table with the transformers of its config
Bindings == [k \in DOMAIN res |-> [entry |-> res[k].entry,
                                   Transformers |-> heap[res[k].config].Transformers]]

\* validateAndBuildEntriesConfig is called again with the same cfg, entries
\* and graph objects
Rerun ==
    /\ Returned
    /\ ~first.set
    /\ first' = [set |-> TRUE, ret |-> ret, entry |-> entry, bindings |-> Bindings]
    /\ pc' = "start"
    /\ work' = <<>>
    /\ res' = <<>>
    /\ setConfigWarns' = <<>>
    /\ pos' = 0
    /\ warnings' = <<>>
    /\ ret' = [warnings |-> <<>>, err |-> "none"]
    /\ UNCHANGED <<call, tables, entry, columns, edges, parts, cfg, heap, autoAnonymize>>

NextBuild == Next \/ Rerun

SpecBuild == InitBuild /\ [][NextBuild]_vars

\* the two lists hold the same warnings the same number of times
SameMultiset(a, b) ==
    \A x \in Range(a) \cup Range(b) :
        Cardinality({i \in DOMAIN a : a[i] = x}) = Cardinality({i \in DOMAIN b : b[i] = x})

\* C11: once a phase has produced an error-severity warning, the builder
\* runs no later phase for any table: it is never about to process a
\* binding while the accumulated warnings are fatal.
C11_FatalWarningStopsBuilder ==
    IsFatal(warnings) => ~(pc = "loop" /\ pos < Len(res))

\* C12: an early return because of a fatal warning returns every warning
\* accumulated so far in the run, with a nil error.
C12_EarlyReturnHasAllWarnings ==
    pc = "fatal" => ret.err = "nil" /\ ret.warnings = warnings

\* C13: no catalog query or driver initialisation fails in these runs, so
\* whatever the user config holds, the builder never returns a non-nil error.
C13_UserInputNeverAnError ==
    Returned => ret.err = "nil"

\* C14: the second run on the same config and entries returns the same
\* error and the same multiset of warnings as the first, and leaves the same
\* bindings: transformers of each bound config, and transformer chain,
\* subset conditions, query and `when` of each table.
C14_SecondRunSameAsFirst ==
    (first.set /\ Returned) =>
        /\ ret.err = first.ret.err
        /\ SameMultiset(ret.warnings, first.ret.warnings)
        /\ Bindings = first.bindings
        /\ \A t \in DOMAIN entry :
               /\ entry[t].TransformersContext = first.entry[t].TransformersContext
               /\ entry[t].SubsetConds = first.entry[t].SubsetConds
               /\ entry[t].Query = first.entry[t].Query
               /\ entry[t].When = first.entry[t].When

\* the column names a transformer of the table config names: the values of
\* its column parameters and the names inside its column-container parameters
NamedByTransformers(c) ==
    UNION {UNION {IF def.Name \notin DOMAIN tr.Params THEN {}
                  ELSE IF def.IsColumn THEN {tr.Params[def.Name]}
                  ELSE IF def.IsColumnContainer
                  THEN {x.name : x \in Range(tr.Params[def.Name])} \ {""}
                  ELSE {} : def \in Range(Registry[tr.Name].Parameters)}
           : tr \in {x \in Range(c.Transformers) : RegistryHas(x.Name)}}

\* the columns that are not in the primary key, not generated, not skipped
\* and not named by a transformer of the config, in column order
EligibleColumns(cols, primaryKey, c) ==
    SelectSeq(cols, LAMBDA col :
        /\ col.Name \notin Range(primaryKey)
        /\ ~col.IsGenerated
        /\ col.Name \notin c.SkipAutoAnonymize
        /\ col.Name \notin NamedByTransformers(c))

\* gen is one default transformer per column of el, in the order of el
OneDefaultEach(gen, el) ==
    /\ Len(gen) = Len(el)
    /\ \A i \in DOMAIN el :
           /\ gen[i].Params.column = el[i].Name
           /\ <<gen[i]>> = GetDefaultTransformerForColumn(el[i]).cfg

\* every transformer name of the config is in the registry and every
\* eligible column has a type with a default transformer
CanGenerateDefaults(cols, primaryKey, c) ==
    /\ \A tr \in Range(c.Transformers) : RegistryHas(tr.Name)
    /\ \A col \in Range(EligibleColumns(cols, primaryKey, c)) :
           GetDefaultTransformerForColumn(col).err = "nil"

\* a step of the builder in which initAndSetupTransformers calls
\* generateDefaultTransformersForUndefinedColumns on the binding at pos + 1
CallsGenerateDefaults ==
    /\ autoAnonymize
    /\ pc = "loop"
    /\ pos < Len(res)
    /\ pc' # "fatal"

\* what the call appended to the transformers of the bound config
AppendedDefaults ==
    SubSeq(heap'[res[pos + 1].config].Transformers,
           Len(heap[res[pos + 1].config].Transformers) + 1,
           Len(heap'[res[pos + 1].config].Transformers))

----------------------------------------------------------------------------
(* A call of GetDefaultTransformerForColumn on one column *)

\* the variables of the config builder
builderVars == <<pc, tables, entry, columns, edges, parts, cfg, heap, autoAnonymize,
                 work, res, setConfigWarns, pos, warnings, ret, first>>

\* the config builder is not running
IdleBuilder ==
    /\ pc = "idle"
    /\ tables = <<>> /\ entry = EmptyMap /\ columns = EmptyMap /\ edges = <<>>
    /\ parts = EmptyMap /\ cfg = <<>> /\ heap = <<>> /\ autoAnonymize = FALSE
    /\ work = <<>> /\ res = <<>> /\ setConfigWarns = <<>> /\ pos = 0 /\ warnings = <<>>
    /\ ret = [warnings |-> <<>>, err |-> "none"]
    /\ first = NoFirst

TypeNames ==
    {"text", "varchar", "character varying", "char", "character", "bpchar", "integer",
     "int", "int4", "bigint", "int8", "smallint", "int2", "numeric", "decimal", "real",
     "float4", "double precision", "float8", "date", "timestamp",
     "timestamp without time zone", "timestamptz", "timestamp with time zone",
     "boolean", "bool", "uuid", "json", "jsonb", "TEXT", "Int4", "VARCHAR",
     "Timestamp With Time Zone", "UUID", "JsonB", "Boolean", "text[]", "_text",
     "integer[]", "_int4", "boolean[]", "uuid[]", "hstore[]", "_geometry", "INTEGER[]",
     "_", "custom_type", "geography", "hstore", "interval", "xml", "varchar(255)",
     "some_alias", "unknown_type"}

DefaultColumns ==
    [Name : {"email", "tags"}, TypeName : TypeNames,
     CanonicalTypeName : {"", "text", "_int4", "xml", "Boolean"},
     IsGenerated : {FALSE}, OverriddenType : {"", "uuid", "hstore"}]

InitDefault ==
    /\ IdleBuilder
    /\ call \in {[fn |-> "GetDefaultTransformerForColumn", column |-> c, done |-> FALSE,
                  out |-> [cfg |-> <<>>, err |-> "nil"]] : c \in DefaultColumns}

CallGetDefaultTransformerForColumn ==
    /\ call.fn = "GetDefaultTransformerForColumn"
    /\ ~call.done
    /\ call' = [call EXCEPT !.out = GetDefaultTransformerForColumn(call.column),
                            !.done = TRUE]
    /\ UNCHANGED builderVars

NextDefault == CallGetDefaultTransformerForColumn

SpecDefault == InitDefault /\ [][NextDefault]_vars

\* the call has returned
DefaultReturned == call.fn = "GetDefaultTransformerForColumn" /\ call.done

\* the type name the lookup is specified on: the canonical name when there
\* is one, else the column's type
LookupName(col) ==
    IF col.CanonicalTypeName # "" THEN col.CanonicalTypeName
    ELSE IF col.OverriddenType # "" THEN col.OverriddenType ELSE col.TypeName

IsArrayName(name) ==
    \/ Len(Chars(name)) >= 2 /\ Chars(name)[Len(Chars(name)) - 1] = "["
                             /\ Chars(name)[Len(Chars(name))] = "]"
    \/ Len(Chars(name)) >= 1 /\ Chars(name)[1] = "_"

\* the call returned one transformer of that name on the column, and no error
Gives(name) ==
    /\ call.out.err = "nil"
    /\ Len(call.out.cfg) = 1
    /\ call.out.cfg[1].Name = name
    /\ call.out.cfg[1].Params.column = call.column.Name

\* C16: for a non-array type, looked up by the canonical type name when there
\* is one and by the type name otherwise, without regard to case, the default
\* transformer is RandomString (5..20) for character types, RandomInt for
\* integers, RandomNumeric for numeric and decimal, RandomFloat for real and
\* double, RandomDate with literals in the type's own format for date,
\* timestamp and timestamptz, RandomBool for boolean, RandomUuid for uuid,
\* Replace with {} for json and jsonb, always on the column itself; any
\* other type gives no transformer and an error.
C16_DefaultByTypeFamily ==
    (DefaultReturned /\ ~IsArrayName(LookupName(call.column))) =>
        LET low == ToLower(Chars(LookupName(call.column)))
            in(S) == \E x \in S : low = Chars(x)
            p == call.out.cfg[1].Params
        IN  CASE in({"text", "varchar", "character varying", "char", "character", "bpchar"}) ->
                     Gives("RandomString") /\ p.min_length = "5" /\ p.max_length = "20"
              [] in({"integer", "int", "int4", "bigint", "int8", "smallint", "int2"}) ->
                     Gives("RandomInt")
              [] in({"numeric", "decimal"}) -> Gives("RandomNumeric")
              [] in({"real", "float4", "double precision", "float8"}) -> Gives("RandomFloat")
              [] in({"date"}) ->
                     Gives("RandomDate") /\ p.min = "1970-01-01" /\ p.max = "2024-12-31"
              [] in({"timestamp", "timestamp without time zone"}) ->
                     /\ Gives("RandomDate")
                     /\ p.min = "1970-01-01 00:00:00" /\ p.max = "2024-12-31 23:59:59"
              [] in({"timestamptz", "timestamp with time zone"}) ->
                     /\ Gives("RandomDate")
                     /\ p.min = "1970-01-01 00:00:00+00" /\ p.max = "2024-12-31 23:59:59+00"
              [] in({"boolean", "bool"}) -> Gives("RandomBool")
              [] in({"uuid"}) -> Gives("RandomUuid")
              [] in({"json", "jsonb"}) -> Gives("Replace") /\ p.value = "{}"
              [] OTHER -> call.out.cfg = <<>> /\ call.out.err # "nil"

\* the canonical name decided, in another case than the catalog writes it,
\* against a type name of another family
C16_Witness ==
    /\ DefaultReturned
    /\ call.column.CanonicalTypeName = "Boolean"
    /\ call.column.TypeName = "text"
    /\ Gives("RandomBool")

\* C17: a column whose resolved type name ends with [] or starts with _ gets
\* Replace with value {} on that column and no error, whatever the element
\* type is.
C17_ArraysReplaced ==
    (DefaultReturned /\ IsArrayName(LookupName(call.column))) =>
        Gives("Replace") /\ call.out.cfg[1].Params.value = "{}"

\* an array of an element type that has no scalar default
C17_Witness ==
    /\ DefaultReturned
    /\ call.column.CanonicalTypeName = ""
    /\ call.column.OverriddenType = ""
    /\ call.column.TypeName \in {"hstore[]", "_geometry"}
    /\ Gives("Replace")

----------------------------------------------------------------------------
(* buildWithClause: the WITH clause of a set of CTEs, called twice on the   *)
(* same map. Strings are sequences of characters.                           *)

\* the byte of a character of a CTE name
Byte(c) == CASE c = "a" -> 97 [] c = "b" -> 98

\* x < y as Go compares strings: byte by byte, a proper prefix first
RECURSIVE StringLess(_, _)
StringLess(x, y) ==
    IF x = <<>> THEN y # <<>>
    ELSE IF y = <<>> THEN FALSE
    ELSE IF Byte(Head(x)) # Byte(Head(y)) THEN Byte(Head(x)) < Byte(Head(y))
    ELSE StringLess(Tail(x), Tail(y))

\* sort.Strings
RECURSIVE SortStrings(_)
SortStrings(s) ==
    IF s = <<>> THEN <<>>
    ELSE LET rest == SortStrings(Tail(s))
             k == Cardinality({j \in DOMAIN rest : ~StringLess(Head(s), rest[j])})
         IN  SubSeq(rest, 1, k) \o <<Head(s)>> \o SubSeq(rest, k + 1, Len(rest))

\* strings.Contains
Contains(str, substr) ==
    \E j \in 1..(Len(str) - Len(substr) + 1) : SubSeq(str, j, j + Len(substr) - 1) = substr

\* fmt.Sprintf(`"%s"`, m)
needle(m) == <<"\"">> \o m \o <<"\"">>

\* lines 188-192: the names in the order the map hands them out, then sorted
CollectNames_Unsorted(order) == order

CollectNames(order) == SortStrings(order)

\* lines 198-212: n depends on m
dependsOnEdge_None(cteDefs, n, m) == FALSE

dependsOnEdge(cteDefs, n, m) == n # m /\ Contains(cteDefs[n], needle(m))

\* lines 230-231: m has become ready
AppendZero_NoSort(zero, m) == Append(zero, m)

AppendZero(zero, m) == SortStrings(Append(zero, m))

\* lines 239-244: the clause of the CTEs in the order ordered
Render(cteDefs, ordered) ==
    <<"W", "I", "T", "H", " ">> \o
    SeqFlatten([k \in DOMAIN ordered |->
        (IF k = 1 THEN <<>> ELSE <<",", " ">>) \o needle(ordered[k])
        \o <<" ", "A", "S", " ", "(">> \o cteDefs[ordered[k]] \o <<")">>])

CteNames == {<<"a">>, <<"a", "b">>, <<"b">>}

\* maps from some of the names to bodies; a body selects from the CTEs whose
\* quoted names it holds, and may mention the names a, b and ab unquoted
CteInputs ==
    LET body(refs, bare) ==
            <<"x", " ">>
            \o SeqFlatten([k \in 1..Cardinality(refs) |->
                   needle(SortStrings(CHOOSE q \in [1..Cardinality(refs) -> refs] :
                                         Range(q) = refs)[k]) \o <<" ">>])
            \o (IF bare THEN <<"a", "b">> ELSE <<>>)
    IN  UNION {UNION {[D -> {body(refs, bare) : refs \in SUBSET CteNames}]
                      : D \in SUBSET CteNames} : bare \in BOOLEAN}

NewWithCall(cteDefs, run, firstOut, firstVisited) ==
    [fn |-> "buildWithClause", pc |-> "begin", cteDefs |-> cteDefs, names |-> <<>>,
     dependsOn |-> EmptyMap, inDegree |-> EmptyMap, zero |-> <<>>, ordered |-> <<>>,
     n |-> <<>>, visited |-> <<>>, out |-> <<>>,
     run |-> run, firstOut |-> firstOut, firstVisited |-> firstVisited]

InitWith ==
    /\ IdleBuilder
    /\ call \in {NewWithCall(d, "first", <<>>, <<>>) : d \in CteInputs}

\* lines 185-220
BeginWith ==
    /\ call.fn = "buildWithClause"
    /\ call.pc = "begin"
    /\ IF DOMAIN call.cteDefs = {}
       THEN call' = [call EXCEPT !.pc = "done", !.out = <<>>]
       ELSE \E order \in [1..Cardinality(DOMAIN call.cteDefs) -> DOMAIN call.cteDefs] :
               /\ Range(order) = DOMAIN call.cteDefs
               /\ LET names == CollectNames(order)
                      dependsOn == [n \in Range(names) |->
                                       {m \in Range(names) : dependsOnEdge(call.cteDefs, n, m)}]
                      inDegree == [n \in Range(names) |-> Cardinality(dependsOn[n])]
                  IN  call' = [call EXCEPT
                          !.pc = "kahn",
                          !.names = names,
                          !.dependsOn = dependsOn,
                          !.inDegree = inDegree,
                          !.zero = SortStrings(SelectSeq(names, LAMBDA n : inDegree[n] = 0))]
    /\ UNCHANGED builderVars

\* lines 221-224
PopZero ==
    /\ call.fn = "buildWithClause"
    /\ call.pc = "kahn"
    /\ call.zero # <<>>
    /\ call' = [call EXCEPT !.pc = "range",
                            !.n = Head(call.zero),
                            !.zero = Tail(call.zero),
                            !.ordered = Append(call.ordered, Head(call.zero)),
                            !.visited = <<>>]
    /\ UNCHANGED builderVars

\* lines 225-234: one iteration of `for m := range dependsOn`, on a key the
\* loop has not visited yet
VisitDependsOn ==
    /\ call.fn = "buildWithClause"
    /\ call.pc = "range"
    /\ \E m \in DOMAIN call.dependsOn \ Range(call.visited) :
           LET hit == call.n \in call.dependsOn[m]
               inDegree == IF hit THEN [call.inDegree EXCEPT ![m] = @ - 1] ELSE call.inDegree
               visited == Append(call.visited, m)
           IN  call' = [call EXCEPT
                   !.dependsOn = IF hit THEN [@ EXCEPT ![m] = @ \ {call.n}] ELSE @,
                   !.inDegree = inDegree,
                   !.zero = IF hit /\ inDegree[m] = 0 THEN AppendZero(@, m) ELSE @,
                   !.visited = visited,
                   !.pc = IF Range(visited) = DOMAIN call.dependsOn THEN "kahn" ELSE "range"]
    /\ UNCHANGED builderVars

\* lines 236-244
FinishWith ==
    /\ call.fn = "buildWithClause"
    /\ call.pc = "kahn"
    /\ call.zero = <<>>
    /\ LET ordered == IF Len(call.ordered) # Len(call.names) THEN call.names ELSE call.ordered
       IN  call' = [call EXCEPT !.pc = "done",
                                !.ordered = ordered,
                                !.out = Render(call.cteDefs, ordered)]
    /\ UNCHANGED builderVars

\* buildWithClause is called again on the same map
CallWithAgain ==
    /\ call.fn = "buildWithClause"
    /\ call.pc = "done"
    /\ call.run = "first"
    /\ call' = NewWithCall(call.cteDefs, "second", call.out, call.visited)
    /\ UNCHANGED builderVars

NextWith == BeginWith \/ PopZero \/ VisitDependsOn \/ FinishWith \/ CallWithAgain

SpecWith == InitWith /\ [][NextWith]_vars

\* buildWithClause has returned a WITH clause
WithDone == call.fn = "buildWithClause" /\ call.pc = "done" /\ DOMAIN call.cteDefs # {}

\* the CTEs whose quoted name the body of A holds
Deps(defs, A) == {B \in DOMAIN defs \ {A} : Contains(defs[A], needle(B))}

\* some CTEs depend on each other in a circle: a non-empty set of CTEs each
\* of which depends on one of the set
HasCycle(defs) ==
    \E S \in SUBSET DOMAIN defs : S # {} /\ \A A \in S : Deps(defs, A) \cap S # {}

\* the position of a CTE in the clause
PositionOf(A) == CHOOSE k \in DOMAIN call.ordered : call.ordered[k] = A

ExactlyOnce ==
    /\ Range(call.ordered) = DOMAIN call.cteDefs
    /\ Len(call.ordered) = Cardinality(DOMAIN call.cteDefs)

ReferencedFirst ==
    \A A \in DOMAIN call.cteDefs :
        \A B \in Deps(call.cteDefs, A) : PositionOf(B) < PositionOf(A)

\* C18 (as claimed): in every WITH clause each CTE stands before every CTE
\* whose body references it, and every CTE of the map stands in it exactly once.
C18_ReferencedBeforeReferencing ==
    WithDone => ExactlyOnce /\ ReferencedFirst

\* C18 (amended): every CTE of the map stands in the clause exactly once,
\* and when no CTEs reference each other in a circle, each CTE stands before
\* every CTE whose body references it.
C18_ReferencedBeforeReferencingIfAcyclic ==
    WithDone => ExactlyOnce /\ (~HasCycle(call.cteDefs) => ReferencedFirst)

\* three CTEs without a circle, the alphabetically first of which references
\* the other two
C18_Witness ==
    /\ WithDone
    /\ ~HasCycle(call.cteDefs)
    /\ DOMAIN call.cteDefs = CteNames
    /\ Deps(call.cteDefs, <<"a">>) = {<<"a", "b">>, <<"b">>}

\* the names of the map in alphabetical order
Alphabetical(defs) ==
    CHOOSE q \in [1..Cardinality(DOMAIN defs) -> DOMAIN defs] :
        \A j, k \in DOMAIN q : j < k => StringLess(q[j], q[k])

\* after emitted, the alphabetically smallest CTE all of whose dependencies
\* are emitted, and so on until no CTE is ready
RECURSIVE SmallestReadyFirst(_, _)
SmallestReadyFirst(defs, emitted) ==
    LET ready == {A \in DOMAIN defs \ Range(emitted) : Deps(defs, A) \subseteq Range(emitted)}
    IN  IF ready = {} THEN emitted
        ELSE SmallestReadyFirst(defs, Append(emitted,
                 CHOOSE A \in ready : \A B \in ready \ {A} : StringLess(A, B)))

\* C19: the dependencies computed are: A depends on B iff A # B and the body
\* of A holds the quoted name of B; the clause lists the CTEs smallest ready
\* first when no CTEs depend on each other in a circle, and in alphabetical
\* order of all names otherwise.
C19_SmallestReadyFirstOrAlphabetical ==
    /\ (call.fn = "buildWithClause" /\ call.pc = "kahn" /\ call.ordered = <<>>) =>
           \A A, B \in DOMAIN call.cteDefs :
               B \in call.dependsOn[A] <=> (A # B /\ Contains(call.cteDefs[A], needle(B)))
    /\ WithDone =>
           call.ordered = IF HasCycle(call.cteDefs) THEN Alphabetical(call.cteDefs)
                          ELSE SmallestReadyFirst(call.cteDefs, <<>>)

\* a clause without circle whose order is not the alphabetical one
C19_Witness ==
    /\ WithDone
    /\ ~HasCycle(call.cteDefs)
    /\ Len(call.ordered) = Cardinality(CteNames)
    /\ call.ordered # Alphabetical(call.cteDefs)

\* C20: the second call on the same map returns the string the first
\* returned, whatever order the two calls iterated the maps in.
C20_SameStringOnSameMap ==
    (call.fn = "buildWithClause" /\ call.pc = "done" /\ call.run = "second") =>
        call.out = call.firstOut

\* both calls have returned the clause of three CTEs, and their last loops
\* over dependsOn visited the keys in different orders
C20_Witness ==
    /\ WithDone
    /\ call.run = "second"
    /\ Len(call.ordered) = Cardinality(CteNames)
    /\ call.visited # call.firstVisited
    /\ call.out # <<>>

----------------------------------------------------------------------------
(* The query builders (internal/db/postgres/subset): shorten, the join      *)
(* clauses and cteQuery. Strings are sequences of characters.               *)

\* the string of n characters c
Fill(c, n) == [k \in 1..n |-> c]

\* Postgres limit for identifiers (NAMEDATALEN-1)
maxLen == 63

\* hex.EncodeToString(h[:5]) of h := sha1.Sum([]byte(name)): ten hex digits
\* that depend on nothing but the bytes of name
Sha1Hex(name) ==
    LET digits == <<"0", "1", "2", "3", "4", "5", "6", "7", "8", "9", "a", "b", "c", "d", "e", "f">>
        h == 31 * Len(name) + 17 * Cardinality({k \in DOMAIN name : name[k] = "a"})
    IN  [k \in 1..10 |-> digits[((h \div k + 7 * k) % 16) + 1]]

\* the prefix is as long as the name
shorten_WholeName(name) ==
    IF Len(name) <= maxLen THEN name
    ELSE name \o <<"_">> \o Sha1Hex(name)

shorten(name) ==
    IF Len(name) <= maxLen THEN name
    ELSE LET prefixLen == IF 40 > maxLen - 11 THEN maxLen - 11 ELSE 40
         IN  SubSeq(name, 1, prefixLen) \o <<"_">> \o Sha1Hex(name)

\* names of 0 to 133 bytes, of two different contents
ShortenInputs ==
    {Fill(c, n) : c \in {"a", "b"}, n \in {0, 1, 40, 51, 52, 62, 63, 64, 65, 74, 100, 133}}

\* shorten(name), then shorten(name) once more, then shorten of the result
CallShorten ==
    /\ call.fn = "shorten"
    /\ call.calls < 3
    /\ call' = [call EXCEPT
           !.calls = @ + 1,
           !.out = IF call.calls = 0 THEN shorten(call.name) ELSE @,
           !.again = IF call.calls = 1 THEN shorten(call.name) ELSE @,
           !.ofOut = IF call.calls = 2 THEN shorten(call.out) ELSE @]
    /\ UNCHANGED builderVars

\* C22: shorten returns at most 63 bytes; a name of at most 63 bytes comes
\* back unchanged, a longer one as its first 40 bytes, an underscore and the
\* 10 hex digits of its SHA-1; a second call on the same name returns the
\* same, and shorten of the result is the result.
C22_ShortenBoundedStableIdempotent ==
    (call.fn = "shorten" /\ call.calls >= 1) =>
        /\ Len(call.out) <= 63
        /\ Len(call.name) <= 63 => call.out = call.name
        /\ Len(call.name) > 63 =>
               /\ Len(call.out) = 51
               /\ SubSeq(call.out, 1, 40) = SubSeq(call.name, 1, 40)
               /\ call.out[41] = "_"
               /\ SubSeq(call.out, 42, 51) = Sha1Hex(call.name)
        /\ call.calls >= 2 => call.again = call.out
        /\ call.calls >= 3 => call.ofOut = call.out

\* a name of 64 bytes has been shortened three times
C22_Witness ==
    /\ call.fn = "shorten"
    /\ call.calls = 3
    /\ Len(call.name) = 64
    /\ call.out # call.name

\* strings.Join
RECURSIVE Join(_, _)
Join(elems, sep) ==
    IF elems = <<>> THEN <<>>
    ELSE IF Len(elems) = 1 THEN elems[1]
    ELSE elems[1] \o sep \o Join(Tail(elems), sep)

\* %d of a non-negative int
RECURSIVE Itoa(_)
Itoa(n) ==
    LET digit == <<"0", "1", "2", "3", "4", "5", "6", "7", "8", "9">>[(n % 10) + 1]
    IN  IF n < 10 THEN <<digit>> ELSE Itoa(n \div 10) \o <<digit>>

\* Key.GetKeyReference: the key as a column of the table
GetKeyReference(key, table) ==
    needle(table.Schema) \o <<".">> \o needle(table.Name) \o <<".">> \o needle(key)

\* the conditions a join clause ends with
PolymorphicExprs(edge) == edge.from.polymorphicExprs \o edge.to.polymorphicExprs

\* the subset conditions are added also when the right table is overridden
RightSubsetConds_Always(edge, overridden) == edge.to.table.SubsetConds

\* lines 78-81
RightSubsetConds(edge, overridden) ==
    IF ~overridden /\ Len(edge.to.table.SubsetConds) > 0 THEN edge.to.table.SubsetConds ELSE <<>>

\* line 68
JoinAlias(override, edge) == override \o <<"_", "e">> \o Itoa(edge.id)

generateJoinClauseV2(edge, joinType, overriddenTables) ==
    IF joinType # <<"I", "N", "N", "E", "R">> /\ joinType # <<"L", "E", "F", "T">>
    THEN [panic |-> TRUE, out |-> <<>>]
    ELSE LET rightTable == edge.to.table
             overridden == rightTable.Oid \in DOMAIN overriddenTables
             override == IF overridden THEN overriddenTables[rightTable.Oid] ELSE <<>>
             alias == IF overridden THEN JoinAlias(override, edge) ELSE <<>>
             keyConds ==
                 [idx \in DOMAIN edge.from.keys |->
                     GetKeyReference(edge.from.keys[idx], edge.from.table) \o <<" ", "=", " ">>
                     \o (IF overridden
                         THEN needle(alias) \o <<".">> \o needle(edge.to.keys[idx])
                         ELSE GetKeyReference(edge.to.keys[idx], rightTable))]
             conds == keyConds \o RightSubsetConds(edge, overridden) \o PolymorphicExprs(edge)
             rightTableName ==
                 IF overridden THEN override \o <<" ", "A", "S", " ">> \o alias
                 ELSE needle(rightTable.Schema) \o <<".">> \o needle(rightTable.Name)
         IN  [panic |-> FALSE,
              out |-> joinType \o <<" ", "J", "O", "I", "N", " ">> \o rightTableName
                      \o <<" ", "O", "N", " ">> \o Join(conds, <<" ", "A", "N", "D", " ">>)]

\* the column names the dropped-edge CTE gives the keys of the left table
LeftTableKeys(edge) ==
    [idx \in DOMAIN edge.from.keys |->
        shorten(edge.from.table.Schema \o <<"_", "_">> \o edge.from.table.Name
                \o <<"_", "_">> \o edge.from.keys[idx])]

generateJoinClauseForDroppedEdge(edge, initTableName) ==
    LET conds ==
            [idx \in DOMAIN edge.to.keys |->
                needle(initTableName) \o <<".">> \o needle(LeftTableKeys(edge)[idx])
                \o <<" ", "=", " ">> \o GetKeyReference(edge.to.keys[idx], edge.to.table)]
            \o PolymorphicExprs(edge)
    IN  <<"J", "O", "I", "N", " ">>
        \o needle(edge.to.table.Schema) \o <<".">> \o needle(edge.to.table.Name)
        \o <<" ", "O", "N", " ">> \o Join(conds, <<" ", "A", "N", "D", " ">>)

\* edges l -> r of one or two key columns, with and without subset conditions
\* on r, polymorphic predicates on either side and names of up to 63 bytes
QueryEdges ==
    {[id |-> id,
      from |-> [table |-> [Schema |-> sch, Name |-> <<"l">> \o tail, Oid |-> 1,
                           SubsetConds |-> <<>>],
                keys |-> SubSeq(<<<<"k">> \o tail, <<"k", "2">>>>, 1, arity),
                polymorphicExprs |-> IF poly THEN << <<"l", ".", "k", "i", "n", "d">> >> ELSE <<>>],
      to |-> [table |-> [Schema |-> sch, Name |-> <<"r">>, Oid |-> 2,
                         SubsetConds |-> SubSeq(<< <<"r", ".", "o", "k">>, <<"r", ".", "n", "e", "w">> >>,
                                                1, nConds)],
              keys |-> SubSeq(<<<<"f">>, <<"f", "2">>>>, 1, arity),
              polymorphicExprs |-> IF poly THEN << <<"r", ".", "t", "y", "p", "e">> >> ELSE <<>>]]
     : id \in {0, 12}, sch \in {<<"s">>, Fill("s", 63)}, tail \in {<<>>, Fill("x", 62)},
       arity \in {1, 2}, poly \in BOOLEAN, nConds \in {0, 1, 2}}

\* the CTE that stands for the right table, when one does
Overrides == {EmptyMap, [o \in {2} |-> <<"c", "t", "e">>], [o \in {2} |-> Fill("c", 63)]}

CallGenerateJoinClauseV2 ==
    /\ call.fn = "generateJoinClauseV2"
    /\ ~call.done
    /\ call' = [call EXCEPT
           !.done = TRUE,
           !.res = generateJoinClauseV2(call.edge, call.joinType, call.overriddenTables)]
    /\ UNCHANGED builderVars

CallGenerateJoinClauseForDroppedEdge ==
    /\ call.fn = "generateJoinClauseForDroppedEdge"
    /\ ~call.done
    /\ call' = [call EXCEPT
           !.done = TRUE,
           !.out = generateJoinClauseForDroppedEdge(call.edge, call.initTableName)]
    /\ UNCHANGED builderVars

\* generateJoinClauseV2 has returned a clause
JoinReturned == call.fn = "generateJoinClauseV2" /\ call.done /\ ~call.res.panic

\* the right table of the call has an entry in the overridden-tables map
Overridden == call.edge.to.table.Oid \in DOMAIN call.overriddenTables

\* what the clause is made of, as the claim lists it
ExpectedJoin(target, rightRef(_), middle) ==
    call.joinType \o <<" ", "J", "O", "I", "N", " ">> \o target \o <<" ", "O", "N", " ">>
    \o Join([k \in DOMAIN call.edge.from.keys |->
                GetKeyReference(call.edge.from.keys[k], call.edge.from.table)
                \o <<" ", "=", " ">> \o rightRef(k)]
            \o middle \o call.edge.from.polymorphicExprs \o call.edge.to.polymorphicExprs,
            <<" ", "A", "N", "D", " ">>)

\* C24: with an entry in the overridden-tables map the clause joins
\* `<cte> AS <cte>_e<edge-id>`, every key equality names the right side
\* through the alias and no subset condition of the right table is in the
\* clause; without an entry the clause joins the real table and the right
\* table's subset conditions follow the key equalities; the polymorphic
\* predicates of the from side, then of the to side, come last in both cases.
C24_OverriddenJoinUsesAlias ==
    JoinReturned =>
        LET cte == call.overriddenTables[call.edge.to.table.Oid]
            alias == cte \o <<"_", "e">> \o Itoa(call.edge.id)
            right == call.edge.to.table
        IN  IF Overridden
            THEN /\ call.res.out =
                        ExpectedJoin(cte \o <<" ", "A", "S", " ">> \o alias,
                                     LAMBDA k : needle(alias) \o <<".">> \o needle(call.edge.to.keys[k]),
                                     <<>>)
                 /\ \A k \in DOMAIN right.SubsetConds : ~Contains(call.res.out, right.SubsetConds[k])
            ELSE call.res.out =
                     ExpectedJoin(needle(right.Schema) \o <<".">> \o needle(right.Name),
                                  LAMBDA k : GetKeyReference(call.edge.to.keys[k], right),
                                  right.SubsetConds)

\* an overridden right table with two subset conditions, two key columns
\* and polymorphic predicates
C24_Witness ==
    /\ JoinReturned
    /\ Overridden
    /\ Len(call.edge.to.table.SubsetConds) = 2
    /\ Len(call.edge.from.keys) = 2
    /\ call.edge.to.polymorphicExprs # <<>>

\* lines 44 and 55 of cteQuery.generateQuery: the name of the CTE of a table
IdsName(table) ==
    table.Schema \o <<"_", "_">> \o table.Name \o <<"_", "_", "i", "d", "s">>

\* generateSelectAllColumns: the list of the table's non-generated columns
generateSelectAllColumns(table) == <<"S", "E", "L", "E", "C", "T", " ", "*">>

\* cteQuery.addItem on [items, names]
addItem(c, name, query) ==
    IF name \in c.names THEN c
    ELSE [c EXCEPT !.items = Append(@, [name |-> name, query |-> query]),
                   !.names = @ \cup {name}]

\* lines 40-46
ExcludedCteQueries(c, targetTable) ==
    {IdsName(c.cycles[1][k].from.table) :
        k \in {j \in DOMAIN c.cycles[1] : c.cycles[1][j].from.table.Oid # targetTable.Oid}}

generateQuery(c, targetTable) ==
    IF c.groupedCycles > 1 THEN [panic |-> TRUE, out |-> <<>>]
    ELSE LET kept == SelectSeq(c.items,
                         LAMBDA item : item.name \notin ExcludedCteQueries(c, targetTable))
             queries == [k \in DOMAIN kept |->
                            <<" ">> \o kept[k].name \o <<" ", "A", "S", " ", "(">>
                            \o kept[k].query \o <<")">>]
             rightTableName == IdsName(targetTable)
             leftTableKeys == [k \in DOMAIN targetTable.PrimaryKey |->
                                  GetKeyReference(targetTable.PrimaryKey[k], targetTable)]
             rightTableKeys == [k \in DOMAIN targetTable.PrimaryKey |->
                                   needle(rightTableName) \o <<".">>
                                   \o needle(targetTable.PrimaryKey[k])]
             resultingQuery ==
                 generateSelectAllColumns(targetTable) \o <<" ", "F", "R", "O", "M", " ">>
                 \o needle(targetTable.Schema) \o <<".">> \o needle(targetTable.Name)
                 \o <<" ", "W", "H", "E", "R", "E", " ", "(">> \o Join(leftTableKeys, <<",">>)
                 \o <<")", " ", "I", "N", " ", "(", "S", "E", "L", "E", "C", "T", " ">>
                 \o Join(rightTableKeys, <<",">>) \o <<" ", "F", "R", "O", "M", " ">>
                 \o needle(rightTableName) \o <<")">>
         IN  [panic |-> FALSE,
              out |-> <<"W", "I", "T", "H", " ", "R", "E", "C", "U", "R", "S", "I", "V", "E", " ">>
                      \o Join(queries, <<",">>) \o <<" ">> \o resultingQuery]

\* the tables a and b of the cycle a <-> b; the name of b is also tried long
CycleTable(name, oid) ==
    [Schema |-> <<"p", "u", "b", "l", "i", "c">>, Name |-> name, Oid |-> oid,
     PrimaryKey |-> << <<"i", "d">> >>]

\* a component whose one cycle is a <-> b, the CTEs to add and the target
CteQueryInputs ==
    {[fn |-> "cteQuery", items |-> <<>>, names |-> {},
      cycles |-> << <<[from |-> [table |-> CycleTable(<<"a">>, 1)]],
                      [from |-> [table |-> CycleTable(bName, 2)]]>> >>,
      groupedCycles |-> grouped,
      pending |-> [k \in DOMAIN order |->
                      [name |-> IdsName(CycleTable(IF order[k] = 1 THEN <<"a">> ELSE bName,
                                                   order[k])),
                       query |-> <<"q">> \o Itoa(k)]],
      targetTable |-> CycleTable(IF target = 1 THEN <<"a">> ELSE bName, target),
      done |-> FALSE, res |-> [panic |-> FALSE, out |-> <<>>]]
     : bName \in {<<"b">>, Fill("b", 52), Fill("b", 63)}, grouped \in {1, 2},
       order \in {<<1>>, <<1, 2>>, <<2, 1>>, <<1, 2, 1>>, <<2, 1, 2>>, <<1, 1, 2, 2>>},
       target \in {1, 2}}

AddItem ==
    /\ call.fn = "cteQuery"
    /\ call.pending # <<>>
    /\ LET c == addItem(call, Head(call.pending).name, Head(call.pending).query)
       IN  call' = [c EXCEPT !.pending = Tail(call.pending)]
    /\ UNCHANGED builderVars

GenerateQuery ==
    /\ call.fn = "cteQuery"
    /\ call.pending = <<>>
    /\ ~call.done
    /\ call' = [call EXCEPT !.done = TRUE, !.res = generateQuery(call, call.targetTable)]
    /\ UNCHANGED builderVars

InitQuery ==
    /\ IdleBuilder
    /\ call \in
           {[fn |-> "shorten", name |-> n, calls |-> 0, out |-> <<>>, again |-> <<>>,
             ofOut |-> <<>>] : n \in ShortenInputs}
           \cup {[fn |-> "generateJoinClauseV2", edge |-> e, joinType |-> j,
                  overriddenTables |-> o, done |-> FALSE, res |-> [panic |-> FALSE, out |-> <<>>]]
                 : e \in {x \in QueryEdges : x.from.table.Name = <<"l">>},
                   j \in {<<"I", "N", "N", "E", "R">>, <<"L", "E", "F", "T">>,
                          <<"F", "U", "L", "L">>},
                   o \in Overrides}
           \cup {[fn |-> "generateJoinClauseForDroppedEdge", edge |-> e,
                  initTableName |-> <<"i", "n", "i", "t">>, done |-> FALSE, out |-> <<>>]
                 : e \in {x \in QueryEdges : x.to.table.SubsetConds = <<>>}}
           \cup CteQueryInputs

NextQuery ==
    \/ CallShorten
    \/ CallGenerateJoinClauseV2
    \/ CallGenerateJoinClauseForDroppedEdge
    \/ AddItem
    \/ GenerateQuery

SpecQuery == InitQuery /\ [][NextQuery]_vars

\* the number of places of str at which sub stands
Occurrences(str, sub) ==
    Cardinality({j \in 1..(Len(str) - Len(sub) + 1) : SubSeq(str, j, j + Len(sub) - 1) = sub})

\* C23: when the CTEs of a and of b were both added, the query of a target
\* of the cycle a <-> b starts with WITH RECURSIVE, defines the CTE of a and
\* the CTE of b exactly once each, and ends with the SELECT of the target
\* filtered by its primary key IN the target's CTE.
C23_CycleQueryDefinesBothCtes ==
    (call.fn = "cteQuery" /\ call.done /\ ~call.res.panic /\ Cardinality(call.names) = 2) =>
        /\ SubSeq(call.res.out, 1, 15) =
               <<"W", "I", "T", "H", " ", "R", "E", "C", "U", "R", "S", "I", "V", "E", " ">>
        /\ \A n \in call.names :
               Occurrences(call.res.out, <<" ">> \o n \o <<" ", "A", "S", " ", "(">>) = 1
        /\ Contains(call.res.out,
               <<" ", "I", "N", " ", "(", "S", "E", "L", "E", "C", "T", " ">>
               \o needle(IdsName(call.targetTable)) \o <<".">> \o needle(<<"i", "d">>)
               \o <<" ", "F", "R", "O", "M", " ">> \o needle(IdsName(call.targetTable))
               \o <<")">>)

\* C21: for schema, table, column and CTE names of at most 63 bytes, the
\* CTE name of the target in generateQuery, the alias of generateJoinClauseV2
\* and the column names of generateJoinClauseForDroppedEdge are at most 63
\* bytes long.
C21_IdentifiersAtMost63Bytes ==
    /\ (call.fn = "cteQuery" /\ call.done /\ ~call.res.panic) =>
           Len(IdsName(call.targetTable)) <= 63
    /\ (JoinReturned /\ Overridden) =>
           Len(JoinAlias(call.overriddenTables[call.edge.to.table.Oid], call.edge)) <= 63
    /\ (call.fn = "generateJoinClauseForDroppedEdge" /\ call.done) =>
           \A k \in DOMAIN call.edge.from.keys : Len(LeftTableKeys(call.edge)[k]) <= 63

----------------------------------------------------------------------------
(* The builder on FK graphs with cycles, with column type overrides on the  *)
(* root and with conditions on the propagated transformers                  *)

\* a condition on the key column id and on id_x, whose name starts with id
WhenOnIdAndIdX == <<"record", ".", "id", "_", "x", " > 0 && ", "record", ".", "id", " > 0">>

\* the transformer lists tried on users
RefsRootTransformers(kind) ==
    LET hash(col, when) == Tr("Hash", [column |-> col, engine |-> "hash"], TRUE, when)
    IN  CASE kind = "id"         -> <<hash("id", <<>>)>>
          [] kind = "two"        -> <<hash("tenant_id", <<>>), hash("id", <<>>)>>
          [] kind = "whenId"     -> <<hash("id", WhenOnId)>>
          [] kind = "whenPrefix" -> <<hash("id", WhenOnIdAndIdX)>>

\* cyc: no cycle, a self-reference of users, or users and orders referencing
\* each other; fk: the column of orders that references users.id
RefsParams ==
    {q \in [cyc : {"none", "self", "two"}, comp : BOOLEAN, fk : {"user_id", "id"},
            rev : BOOLEAN, ovr : BOOLEAN, rootTrs : {"id", "two", "whenId", "whenPrefix"},
            oCfg : {"none", "subset"}] :
        /\ q.cyc = "self" => q.comp
        /\ q.cyc = "two" => ~q.comp}

RefsColumnsOf(t) ==
    IF t = T.U
    THEN <<Col("tenant_id", "int4"), Col("id", "int4"), Col("id_x", "int4"),
           Col("parent_id", "int4"), Col("name", "text")>>
    ELSE <<Col("id", "int4"), Col("tenant_id", "int4"), Col("user_id", "int4"),
           Col("id_x", "int4"), Col("note", "text")>>

RefsPrimaryKeyOf(q, t) ==
    IF t = T.U THEN (IF q.comp THEN <<"tenant_id", "id">> ELSE <<"id">>)
    ELSE IF q.cyc = "two" THEN <<q.fk>> ELSE <<"id">>

\* the reversed graph: orders references users; with a cycle, users also
\* references itself or orders, every FK column being part of the primary
\* key of the referencing table
RefsEdgesOf(q) ==
    LET e1 == <<[from |-> [table |-> T.U, keys |-> RefsPrimaryKeyOf(q, T.U)],
                 to |-> [table |-> T.O,
                         keys |-> IF q.comp THEN <<"tenant_id", q.fk>> ELSE <<q.fk>>]]>>
        self == <<[from |-> [table |-> T.U, keys |-> RefsPrimaryKeyOf(q, T.U)],
                   to |-> [table |-> T.U, keys |-> <<"tenant_id", "parent_id">>]]>>
        back == <<[from |-> [table |-> T.O, keys |-> RefsPrimaryKeyOf(q, T.O)],
                   to |-> [table |-> T.U, keys |-> <<"id">>]]>>
        es == e1 \o (CASE q.cyc = "self" -> self [] q.cyc = "two" -> back [] OTHER -> <<>>)
    IN  [i \in DOMAIN es |-> [id |-> i - 1, from |-> es[i].from, to |-> es[i].to]]

RefsUserConfig(q) ==
    << [TableCfg("users", RefsRootTransformers(q.rootTrs), FALSE) EXCEPT
          !.ColumnsTypeOverride = IF q.ovr THEN [tenant_id |-> "int8", id |-> "uuid"]
                                  ELSE EmptyMap] >>
    \o (IF q.oCfg = "subset"
        THEN << [TableCfg("orders", OrdersTransformers("other"), FALSE) EXCEPT
                   !.SubsetConds = <<"total > 10">>,
                   !.Query = "SELECT * FROM orders",
                   !.When = <<"record", ".", "note", " != ''">>] >>
        ELSE <<>>)

InitRefs ==
    \E q \in RefsParams :
        LET ts == IF q.rev THEN <<T.O, T.U>> ELSE <<T.U, T.O>>
        IN  /\ pc = "start"
            /\ tables = ts
            /\ entry = [t \in Range(ts) |->
                           [NewEntry(PlainCatalog, t) EXCEPT !.PrimaryKey = RefsPrimaryKeyOf(q, t)]]
            /\ columns = [t \in Range(ts) |-> RefsColumnsOf(t)]
            /\ edges = RefsEdgesOf(q)
            /\ parts = [t \in Range(ts) |-> <<>>]
            /\ heap = RefsUserConfig(q)
            /\ cfg = [i \in DOMAIN RefsUserConfig(q) |-> i]
            /\ autoAnonymize = FALSE
            /\ work = <<>>
            /\ res = <<>>
            /\ setConfigWarns = <<>>
            /\ pos = 0
            /\ warnings = <<>>
            /\ ret = [warnings |-> <<>>, err |-> "none"]
            /\ call = NoCall
            /\ first = NoFirst

SpecRefs == InitRefs /\ [][Next]_vars

\* the user's config of users, the root of the propagation in these runs
RootCfg == heap[CHOOSE i \in DOMAIN cfg : heap[cfg[i]].Name = "users"]

\* the transformer tr of a propagated binding of table t stems from the root
\* transformer rt through the n-th column of an FK onto users
StemsFrom(tr, t, rt, n) ==
    /\ rt.ApplyForReferences
    /\ tr.Name = rt.Name
    /\ n \in DOMAIN entry[T.U].PrimaryKey
    /\ Param(rt, columnParameterName) = entry[T.U].PrimaryKey[n]
    /\ \E i \in DOMAIN edges :
           /\ edges[i].from.table = T.U
           /\ edges[i].to.table = t
           /\ n \in DOMAIN edges[i].to.keys
           /\ edges[i].to.keys[n] = Param(tr, columnParameterName)

\* C25: when the root's config overrides the type of a transformed key
\* column, every propagated binding carries that type for the child-side FK
\* column of each transformer it received, also when the two columns have
\* different names and also for a second transformer on the same child.
C25_PropagatedBindingCarriesTypeOverride ==
    SetConfigReturned =>
        \A k \in DOMAIN res :
            IsPropagated(res[k]) =>
                \A tr \in Range(TransformersOf(res[k])), rt \in Range(RootCfg.Transformers) :
                    \A n \in DOMAIN entry[T.U].PrimaryKey :
                        (/\ StemsFrom(tr, res[k].entry, rt, n)
                         /\ entry[T.U].PrimaryKey[n] \in DOMAIN RootCfg.ColumnsTypeOverride)
                        => LET child == Param(tr, columnParameterName)
                               over == heap[res[k].config].ColumnsTypeOverride
                           IN  /\ child \in DOMAIN over
                               /\ over[child] = RootCfg.ColumnsTypeOverride[entry[T.U].PrimaryKey[n]]

\* the condition with every reference record.<old> and raw_record.<old>
\* naming the column new instead, the references to other columns kept
RECURSIVE RenameColumnFrom(_, _, _, _)
RenameColumnFrom(s, old, new, i) ==
    IF i > Len(s) THEN <<>>
    ELSE IF i + 2 <= Len(s) /\ s[i] = "record" /\ s[i + 1] = "." /\ IdentRun(s, i + 2) # <<>>
         THEN LET run == IdentRun(s, i + 2)
              IN  <<"record", ".">> \o (IF JoinAtoms(run) = old THEN ColAtoms(new) ELSE run)
                  \o RenameColumnFrom(s, old, new, i + 2 + Len(run))
         ELSE <<s[i]>> \o RenameColumnFrom(s, old, new, i + 1)

\* C26: the `when` of a propagated transformer is the root transformer's
\* with record.<pk-col> and raw_record.<pk-col> renamed to the child-side
\* column and every other column reference unchanged, a column whose name
\* starts with <pk-col> included.
C26_WhenRenamesOnlyTheKeyColumn ==
    SetConfigReturned =>
        \A k \in DOMAIN res :
            IsPropagated(res[k]) =>
                \A tr \in Range(TransformersOf(res[k])), rt \in Range(RootCfg.Transformers) :
                    \A n \in DOMAIN entry[T.U].PrimaryKey :
                        (StemsFrom(tr, res[k].entry, rt, n) /\ rt.When # <<>>)
                        => tr.When = RenameColumnFrom(rt.When, Param(rt, columnParameterName),
                                                      Param(tr, columnParameterName), 1)

\* C27: the walk of the reference graph returns on every FK graph, cyclic
\* and self-referential ones included: the recursion never grows without bound.
C27_ReferenceWalkTerminates == pc # "overflow"

\* the binding of the user's config object i to a table of that name
UserBinding(i, t) ==
    /\ NameMatches(heap[cfg[i]].Name, entry[t].Name)
    /\ NameMatches(heap[cfg[i]].Schema, entry[t].Schema)

\* C28: after a return without error and without fatal warning, the entry
\* of every table the user configured holds the subset conditions, the
\* query and the `when` of the user's config, whatever the order of tables.
C28_EntryKeepsUserSettings ==
    (pc = "done" /\ ~IsFatal(ret.warnings)) =>
        \A i \in DOMAIN cfg :
            \A t \in DOMAIN entry :
                UserBinding(i, t) =>
                    /\ entry[t].SubsetConds = escapeSubsetConds(heap[cfg[i]].SubsetConds)
                    /\ entry[t].Query = heap[cfg[i]].Query
                    /\ entry[t].When = heap[cfg[i]].When

\* C29: the propagation never indexes the FK columns of an edge out of
\* range, at any depth of the walk, also when the edge's FK has fewer
\* columns than the root's primary key.
C29_FkKeysIndexInRange == pc \notin {"panic"}

\* the positions of the table's transformer chain that name the column
NamingColumn(t, col) ==
    {k \in DOMAIN entry[t].TransformersContext :
        col.Name \in Range(extractColumnNamesFromTransformer(entry[t].TransformersContext[k]).names)}

\* the transformer at that position is the default one of the column
IsDefaultOf(t, k, col) ==
    LET d == GetDefaultTransformerForColumn(col).cfg
        x == entry[t].TransformersContext[k]
    IN  d # <<>> /\ x.Name = d[1].Name /\ x.Params = d[1].Params

\* C30: with auto_anonymize, the transformer chain of each table holds at
\* most one auto-generated default per column, and none for a column that
\* an explicit, inherited or propagated transformer names, also when the
\* table is bound more than once in the run.
C30_AtMostOneDefaultPerColumn ==
    (autoAnonymize /\ pc = "done" /\ ~first.set) =>
        \A t \in DOMAIN entry :
            \A col \in Range(Columns(t)) :
                LET defaults == {k \in NamingColumn(t, col) : IsDefaultOf(t, k, col)}
                IN  /\ Cardinality(defaults) <= 1
                    /\ NamingColumn(t, col) # defaults => defaults = {}

====
